---- MODULE Spec2Model ----
(***************************************************************************)
(* A model of the rhythm game's timing core: the scoring system            *)
(* (ScoringSystem), the note state machine (Note) and the game engine's    *)
(* frame update and keypress handling (GameEngine).                        *)
(*                                                                         *)
(* Conventions.                                                            *)
(*  - Times are integers in milliseconds (the code uses seconds as IEEE    *)
(*    doubles): 0.05 s is 50, 2 s is 2000.  Rounding of the doubles in the *)
(*    time subtractions is not modelled.                                   *)
(*  - Multipliers are kept in halves (1.5x is 3), so that                  *)
(*    Math.floor(base * multiplier) is (base * halves) \div 2.             *)
(*  - Note.alpha is kept as the number of decrements applied to it; the    *)
(*    number of decrements after which alpha <= 0 is the one IEEE double   *)
(*    arithmetic gives (see HitFadeUpdates, MissFadeUpdates).              *)
(*  - The interpolated playback time handed to update() and used by        *)
(*    handleKeyPress() is an input of the actions of Spec, drawn from      *)
(*    ClockValues in any order (the player's clock may lag, jump or go     *)
(*    back).                                                               *)
(*  - SpecClock keeps the clock of the code instead: the wall clock       *)
(*    (performance.now(), the requestAnimationFrame timestamp) and the     *)
(*    player's time (youtubePlayer.getCurrentTime()) advance in Tick, and  *)
(*    getInterpolatedPlaybackTime computes the playback time from them.    *)
(*  - The beat generator (SpecBeats) keeps times in microseconds, so that  *)
(*    a quarter of a beat is a whole number for the tempos drawn; each     *)
(*    Math.random() outcome is a nondeterministic choice.                  *)
(*  - SpecRun follows a run through its life: the waits of startGame,     *)
(*    pause, restart, quit and the end of the run, with the callbacks of   *)
(*    the page in any order; SpecRunLive are the runs played to their end. *)
(*  - SpecInit is YouTubePlayerManager.init() with the loading of the     *)
(*    IFrame API as the environment, and SpecHistory the history list      *)
(*    under addToHistory calls that overlap at the fetch of the title.     *)
(*  - Rendering state (positions, glow, lane flashes, particles) is left   *)
(*    out: no claim reads it and nothing of the core reads it back.        *)
(***************************************************************************)
EXTENDS Integers, Sequences, FiniteSets, TLC

VARIABLES
    upcomingBeats,   \* GameEngine.upcomingBeats: the beat schedule of the run
    beatIndex,       \* GameEngine.beatIndex: number of beats consumed
    notes,           \* GameEngine.notes: the live Note objects, in spawn order
    scoringSystem,   \* the ScoringSystem's fields
    isRunning,       \* GameEngine.isRunning
    isPaused,        \* GameEngine.isPaused
    isGameOver,      \* GameEngine.isGameOver
    endTimeout,      \* GameEngine.endTimeout: "null", "pending" or "expired"
    scored,          \* history: for each beat, the processHit results its note caused
    audit,           \* history: sum of returned scoreEarned, greatest combo reached
    timing,          \* GameEngine.lastYouTubeTime, lastYouTubeTimeUpdate, interpolatedTime
    world,           \* the wall clock, the player's time and whether it is playing
    genArgs,         \* generateBeatsForDuration's arguments and Math.random() outcomes
    audioAnalyzer,   \* AudioAnalyzer.beats, and whether generateBeatsForDuration returned
    page,            \* the page around the core: screens, startGame in progress,
                     \* pending frame callbacks, key listeners
    loader,          \* window.YT, and the promises YouTubePlayerManager.init() returned
    history,         \* HistoryManager.history, and the addToHistory calls in progress
    pureIn,          \* the input of a pure-function check
    pureOut          \* its output: <<>> until the function has been applied

vars == <<upcomingBeats, beatIndex, notes, scoringSystem, isRunning, isPaused,
          isGameOver, endTimeout, scored, audit, timing, world, genArgs,
          audioAnalyzer, page, loader, history, pureIn, pureOut>>

engineVars == <<upcomingBeats, beatIndex, notes, isRunning, isPaused,
                isGameOver, endTimeout, scored>>

pureVars == <<pureIn, pureOut>>

clockVars == <<timing, world>>

beatVars == <<genArgs, audioAnalyzer>>

sideVars == <<loader, history>>

gameVars == <<engineVars, scoringSystem, audit, clockVars, beatVars, page, pureVars>>

(***************************************************************************)
(* Bounds of the model.                                                    *)
(***************************************************************************)
MaxBeats == 2
MaxCalls == 26
MaxComboIn == 120
MaxDelta == 200
MaxWall == 2000
MaxLag == 150

(***************************************************************************)
(* Program constants.                                                      *)
(***************************************************************************)
travelTime == 2000
noteSpawnOffset == travelTime
NumLanes == 4
MissTolerance == 150
RemoveCutoff == 500
HitGate == 150
PerfectWindow == 50
GoodWindow == 100
PerfectBase == 100
GoodBase == 50
MissBase == 0
\* alpha starts at 1 and loses 0.1 per update of a hit note: in doubles it is
\* 1.39e-16 > 0 after 10 decrements and negative after 11.
HitFadeUpdates == 11
\* alpha loses 0.05 per update of a missed note: in doubles it is
\* -3.19e-16 <= 0 after 20 decrements.
MissFadeUpdates == 20

comboThresholds == <<10, 25, 50, 100>>
\* [1, 1.5, 2, 2.5, 3] in halves
comboMultipliers == <<2, 3, 4, 5, 6>>

Lanes == 0 .. (NumLanes - 1)
Results == {"perfect", "good", "miss"}

Abs(x) == IF x < 0 THEN -x ELSE x
Max2(a, b) == IF a > b THEN a ELSE b
SetMax(S) == CHOOSE x \in S : \A y \in S : y <= x

(***************************************************************************)
(* ScoringSystem                                                           *)
(***************************************************************************)
ScoringReset ==
    [score |-> 0, combo |-> 0, maxCombo |-> 0, totalNotes |-> 0, hitNotes |-> 0,
     perfectCount |-> 0, goodCount |-> 0, missCount |-> 0]

judgeHitStrict(timeDiff) ==
    LET absTimeDiff == Abs(timeDiff) IN
    IF absTimeDiff < PerfectWindow THEN "perfect"
    ELSE IF absTimeDiff < GoodWindow THEN "good"
    ELSE "miss"

judgeHit(timeDiff) ==
    LET absTimeDiff == Abs(timeDiff) IN
    IF absTimeDiff <= PerfectWindow THEN "perfect"
    ELSE IF absTimeDiff <= GoodWindow THEN "good"
    ELSE "miss"

getComboMultiplierStrict(combo) ==
    LET reached == {i \in 1 .. Len(comboThresholds) : combo > comboThresholds[i]}
        multiplierIndex == IF reached = {} THEN 0 ELSE SetMax(reached)
    IN  comboMultipliers[multiplierIndex + 1]

\* The loop keeps the last i whose threshold the combo has reached.
getComboMultiplier(combo) ==
    LET reached == {i \in 1 .. Len(comboThresholds) : combo >= comboThresholds[i]}
        multiplierIndex == IF reached = {} THEN 0 ELSE SetMax(reached)
    IN  comboMultipliers[multiplierIndex + 1]

baseScores(result) ==
    CASE result = "perfect" -> PerfectBase
      [] result = "good" -> GoodBase
      [] OTHER -> MissBase

scoreEarnedStale(s, result) ==
    IF result = "miss" THEN 0
    ELSE (baseScores(result) * getComboMultiplier(s.combo)) \div 2

\* processHit's scoreEarned: the multiplier is read after combo++.
scoreEarned(s, result) ==
    IF result = "miss" THEN 0
    ELSE (baseScores(result) * getComboMultiplier(s.combo + 1)) \div 2

processHitKeepCombo(s, result) ==
    LET combo == IF result = "miss" THEN s.combo ELSE s.combo + 1 IN
    [score |-> s.score + scoreEarned(s, result),
     combo |-> combo,
     maxCombo |-> IF combo > s.maxCombo THEN combo ELSE s.maxCombo,
     totalNotes |-> s.totalNotes + 1,
     hitNotes |-> IF result = "miss" THEN s.hitNotes ELSE s.hitNotes + 1,
     perfectCount |-> IF result = "perfect" THEN s.perfectCount + 1 ELSE s.perfectCount,
     goodCount |-> IF result = "good" THEN s.goodCount + 1 ELSE s.goodCount,
     missCount |-> IF result = "miss" THEN s.missCount + 1 ELSE s.missCount]

\* hitNotes raised by a miss as well.
processHitCountsMiss(s, result) ==
    LET combo == IF result = "miss" THEN 0 ELSE s.combo + 1 IN
    [score |-> s.score + scoreEarned(s, result),
     combo |-> combo,
     maxCombo |-> IF combo > s.maxCombo THEN combo ELSE s.maxCombo,
     totalNotes |-> s.totalNotes + 1,
     hitNotes |-> s.hitNotes + 1,
     perfectCount |-> IF result = "perfect" THEN s.perfectCount + 1 ELSE s.perfectCount,
     goodCount |-> IF result = "good" THEN s.goodCount + 1 ELSE s.goodCount,
     missCount |-> IF result = "miss" THEN s.missCount + 1 ELSE s.missCount]

processHit(s, result) ==
    LET combo == IF result = "miss" THEN 0 ELSE s.combo + 1 IN
    [score |-> s.score + scoreEarned(s, result),
     combo |-> combo,
     maxCombo |-> IF combo > s.maxCombo THEN combo ELSE s.maxCombo,
     totalNotes |-> s.totalNotes + 1,
     hitNotes |-> IF result = "miss" THEN s.hitNotes ELSE s.hitNotes + 1,
     perfectCount |-> IF result = "perfect" THEN s.perfectCount + 1 ELSE s.perfectCount,
     goodCount |-> IF result = "good" THEN s.goodCount + 1 ELSE s.goodCount,
     missCount |-> IF result = "miss" THEN s.missCount + 1 ELSE s.missCount]

processMiss(s) == processHit(s, "miss")

\* The history kept beside the scoring system, none of it read by the code:
\*   earned    sum of the scoreEarned values processHit returned since reset
\*   peak      greatest value combo has had since reset
\*   streak    processHit calls with a hit result since the last 'miss' call
\*   nHit      processHit calls with a hit result since reset
\*   nMiss     processHit('miss') calls since reset
\*   last      result of the latest processHit call
\*   gatedMiss a keypress found its nearest note inside the 150 ms gate and
\*             judgeHit returned 'miss' for it
\*   maxClock  greatest playback time update() was given in the run (-1:
\*             none); kept by SpecFrames only
\*   wentBack  update() was given a playback time below maxClock; kept by
\*             SpecFrames only
Audited(a, s, result) ==
    [a EXCEPT !.earned = @ + scoreEarned(s, result),
              !.peak = Max2(@, processHit(s, result).combo),
              !.streak = IF result = "miss" THEN 0 ELSE @ + 1,
              !.nHit = IF result = "miss" THEN @ ELSE @ + 1,
              !.nMiss = IF result = "miss" THEN @ + 1 ELSE @,
              !.last = result]

AuditReset ==
    [earned |-> 0, peak |-> 0, streak |-> 0, nHit |-> 0, nMiss |-> 0,
     last |-> "none", gatedMiss |-> FALSE, maxClock |-> -1, wentBack |-> FALSE]

(***************************************************************************)
(* Note                                                                    *)
(***************************************************************************)
\* new Note(beat.lane, beat.time, ...); beat is the note's identity.
NewNote(beat, b) ==
    [beat |-> beat, lane |-> b.lane, hitTime |-> b.time, status |-> "active",
     hitResult |-> "null", wasScored |-> FALSE, alphaSteps |-> 0]

alphaSpentLate(n) == n.alphaSteps >= MissFadeUpdates + HitFadeUpdates

alphaSpent(n) ==
    IF n.status = "hit" THEN n.alphaSteps >= HitFadeUpdates
    ELSE n.alphaSteps >= MissFadeUpdates

NoteUpdateNoMiss(n, currentTime) ==
    LET timeUntilHit == n.hitTime - currentTime
        n2 == IF timeUntilHit < -RemoveCutoff
              THEN [n EXCEPT !.status = "removed"] ELSE n
        n3 == IF n2.status = "hit"
              THEN LET f == [n2 EXCEPT !.alphaSteps = @ + 1] IN
                   IF alphaSpent(f) THEN [f EXCEPT !.status = "removed"] ELSE f
              ELSE n2
    IN  n3

\* Note.update: the four status blocks run in this order on the same note.
NoteUpdate(n, currentTime) ==
    LET timeUntilHit == n.hitTime - currentTime
        n1 == IF timeUntilHit < -MissTolerance /\ n.status = "active"
              THEN [n EXCEPT !.status = "missed"] ELSE n
        n2 == IF timeUntilHit < -RemoveCutoff
              THEN [n1 EXCEPT !.status = "removed"] ELSE n1
        n3 == IF n2.status = "hit"
              THEN LET f == [n2 EXCEPT !.alphaSteps = @ + 1] IN
                   IF alphaSpent(f) THEN [f EXCEPT !.status = "removed"] ELSE f
              ELSE n2
        n4 == IF n3.status = "missed"
              THEN LET f == [n3 EXCEPT !.alphaSteps = @ + 1] IN
                   IF alphaSpent(f) THEN [f EXCEPT !.status = "removed"] ELSE f
              ELSE n3
    IN  n4

NoteHitNoResult(n, result) == [n EXCEPT !.status = "hit"]

NoteHit(n, result) == [n EXCEPT !.status = "hit", !.hitResult = result]

isActive(n) == n.status = "active"

shouldRemove(n) == n.status = "removed"

(***************************************************************************)
(* GameEngine                                                              *)
(***************************************************************************)
RECURSIVE spawnNotes(_, _, _, _)
spawnNotesRewind(beats, idx, ns, currentTime) ==
    IF idx > 0 /\ currentTime < beats[idx].time - noteSpawnOffset
    THEN [notes |-> ns, beatIndex |-> idx - 1]
    ELSE IF idx < Len(beats) /\ currentTime >= beats[idx + 1].time - noteSpawnOffset
    THEN spawnNotes(beats, idx + 1, Append(ns, NewNote(idx + 1, beats[idx + 1])),
                    currentTime)
    ELSE [notes |-> ns, beatIndex |-> idx]

spawnNotesOne(beats, idx, ns, currentTime) ==
    IF idx < Len(beats) /\ currentTime >= beats[idx + 1].time - noteSpawnOffset
    THEN [notes |-> Append(ns, NewNote(idx + 1, beats[idx + 1])), beatIndex |-> idx + 1]
    ELSE [notes |-> ns, beatIndex |-> idx]

spawnNotesLate(beats, idx, ns, currentTime) ==
    IF idx < Len(beats) /\ currentTime > beats[idx + 1].time - noteSpawnOffset
    THEN spawnNotes(beats, idx + 1, Append(ns, NewNote(idx + 1, beats[idx + 1])),
                    currentTime)
    ELSE [notes |-> ns, beatIndex |-> idx]

\* spawnNotes: consume beats while the clock has reached their spawn time.
spawnNotes(beats, idx, ns, currentTime) ==
    IF idx < Len(beats) /\ currentTime >= beats[idx + 1].time - noteSpawnOffset
    THEN spawnNotes(beats, idx + 1, Append(ns, NewNote(idx + 1, beats[idx + 1])),
                    currentTime)
    ELSE [notes |-> ns, beatIndex |-> idx]

missUnscoredAlways(n) == n.status = "missed"

\* update's test on a note it has just updated
missUnscored(n) == n.status = "missed" /\ ~n.wasScored

\* update's loop over this.notes, from note i on: the state it leaves (acc
\* holds the engine's fields, see Core)
RECURSIVE updateNotes(_, _, _)
updateNotes(acc, i, currentTime) ==
    IF i > Len(acc.notes) THEN acc
    ELSE LET n == NoteUpdate(acc.notes[i], currentTime) IN
         IF missUnscored(n)
         THEN updateNotes(
                [acc EXCEPT !.notes[i] = [n EXCEPT !.wasScored = TRUE],
                            !.scoringSystem = processMiss(@),
                            !.scored[n.beat] = Append(@, "miss"),
                            !.audit = Audited(@, acc.scoringSystem, "miss")],
                i + 1, currentTime)
         ELSE updateNotes([acc EXCEPT !.notes[i] = n], i + 1, currentTime)

keepNote(n) == ~shouldRemove(n)

\* handleKeyPress's search: the index of the closest active note of the lane
\* (0 when there is none); a later note replaces the choice only when closer.
RECURSIVE closestFrom(_, _, _, _, _)
closestFrom(ns, lane, currentTime, i, best) ==
    IF i > Len(ns) THEN best
    ELSE IF ns[i].lane = lane /\ isActive(ns[i])
            /\ (best = 0 \/ Abs(ns[i].hitTime - currentTime)
                              < Abs(ns[best].hitTime - currentTime))
         THEN closestFrom(ns, lane, currentTime, i + 1, i)
         ELSE closestFrom(ns, lane, currentTime, i + 1, best)

RECURSIVE closestFromLast(_, _, _, _, _)
closestFromLast(ns, lane, currentTime, i, best) ==
    IF i > Len(ns) THEN best
    ELSE IF ns[i].lane = lane /\ isActive(ns[i])
            /\ (best = 0 \/ Abs(ns[i].hitTime - currentTime)
                              <= Abs(ns[best].hitTime - currentTime))
         THEN closestFromLast(ns, lane, currentTime, i + 1, i)
         ELSE closestFromLast(ns, lane, currentTime, i + 1, best)

closestNoteLast(ns, lane, currentTime) == closestFromLast(ns, lane, currentTime, 1, 0)

closestNote(ns, lane, currentTime) == closestFrom(ns, lane, currentTime, 1, 0)

\* The state handleKeyPress leaves when the game is neither paused nor over.
handleKeyPressNoMissTest(acc, lane, currentTime) ==
    LET c == closestNote(acc.notes, lane, currentTime) IN
    IF c # 0 /\ Abs(acc.notes[c].hitTime - currentTime) <= HitGate
    THEN LET result == judgeHit(Abs(acc.notes[c].hitTime - currentTime)) IN
         [acc EXCEPT !.notes[c] = [NoteHit(@, result) EXCEPT !.wasScored = TRUE],
                     !.scoringSystem = processHit(@, result),
                     !.scored[acc.notes[c].beat] = Append(@, result),
                     !.audit = Audited(@, acc.scoringSystem, result)]
    ELSE acc

handleKeyPress(acc, lane, currentTime) ==
    LET c == closestNote(acc.notes, lane, currentTime) IN
    IF c # 0 /\ Abs(acc.notes[c].hitTime - currentTime) <= HitGate
    THEN LET result == judgeHit(Abs(acc.notes[c].hitTime - currentTime)) IN
         IF result # "miss"
         THEN [acc EXCEPT !.notes[c] = [NoteHit(@, result) EXCEPT !.wasScored = TRUE],
                          !.scoringSystem = processHit(@, result),
                          !.scored[acc.notes[c].beat] = Append(@, result),
                          !.audit = Audited(@, acc.scoringSystem, result)]
         ELSE [acc EXCEPT !.audit.gatedMiss = TRUE]
    ELSE acc

(***************************************************************************)
(* The inputs of the model.                                                *)
(***************************************************************************)
BeatTimes == {2000, 2200, 4000}
SchedLanes == {0, 1}
MinLaneGap == 200

\* What generateBeatsForDuration can return: sorted by time, and no two
\* adjacent beats in one lane less than 200 ms apart (preventOverlaps).
IsSchedule(b) ==
    /\ \A i \in 1 .. Len(b) - 1 : b[i].time < b[i + 1].time
    /\ \A i \in 1 .. Len(b) - 1 :
          b[i].lane = b[i + 1].lane => b[i + 1].time - b[i].time >= MinLaneGap

Schedules ==
    {b \in UNION {[1 .. n -> [time : BeatTimes, lane : SchedLanes]] : n \in 0 .. MaxBeats} :
        IsSchedule(b)}

\* Keys pressed: the lanes that hold notes and one lane that never does.
KeyLanes == SchedLanes \cup {NumLanes - 1}

\* Clock values around each beat: its spawn time, the edges of the judging
\* windows and of the hit gate, and the miss and removal cut-offs (0 and the
\* values around an earlier beat lie before a later beat's spawn time).
Offsets == {-2000, -150, -100, -50, 30, 50, 100, 150, 500, 550}

ClockValues ==
    {0} \cup {t \in {upcomingBeats[i].time + d : i \in 1 .. Len(upcomingBeats), d \in Offsets} :
                t >= 0}

(***************************************************************************)
(* The state after construction (GameEngine, ScoringSystem and             *)
(* AudioAnalyzer constructors); the page's clock and player are at 0.      *)
(***************************************************************************)
TimingInit == [lastYouTubeTime |-> 0, lastYouTubeTimeUpdate |-> 0, interpolatedTime |-> 0]

WorldInit == [now |-> 0, playerTime |-> 0, playing |-> FALSE]

AnalyzerInit == [beats |-> <<>>, generated |-> FALSE]

NoArgs == [duration |-> 0, difficulty |-> "medium", bpm |-> 120, draws |-> <<>>]

\* No script has defined window.YT and init() has not been called.
LoaderInit == [YT |-> "undefined", ready |-> FALSE, owner |-> 0, promises |-> <<>>]

\* new HistoryManager() on an empty localStorage; no addToHistory call is in
\* progress and none has returned.
HistoryInit == [history |-> <<>>, fetching |-> <<>>, calls |-> 0, videos |-> 0, last |-> 0]

\* The page after DOMContentLoaded: the start screen is shown, the IFrame API
\* script is not loaded, no startGame is in progress, no animation frame is
\* requested and the key listeners are not attached.
PageInit ==
    [screen |-> "start", pauseMenu |-> FALSE, error |-> FALSE, api |-> FALSE,
     url |-> "empty", startGame |-> "none", frames |-> 0, idPending |-> FALSE,
     timers |-> 0, listening |-> FALSE, shown |-> 0, expectedNotes |-> 0,
     spawned |-> 0, quit |-> FALSE]

Init ==
    /\ upcomingBeats = <<>>
    /\ beatIndex = 0
    /\ notes = <<>>
    /\ scoringSystem = ScoringReset
    /\ isRunning = FALSE
    /\ isPaused = FALSE
    /\ isGameOver = FALSE
    /\ endTimeout = "null"
    /\ scored = <<>>
    /\ audit = AuditReset
    /\ timing = TimingInit
    /\ world = WorldInit
    /\ genArgs = NoArgs
    /\ audioAnalyzer = AnalyzerInit
    /\ page = PageInit
    /\ loader = LoaderInit
    /\ history = HistoryInit
    /\ pureIn = [fn |-> "none", x |-> 0]
    /\ pureOut = <<>>

(***************************************************************************)
(* Actions of the game engine                                              *)
(***************************************************************************)
\* The first startGame of the page, from reset() to the first
\* requestAnimationFrame; before it no frame loop, timer or key listener
\* exists, so nothing interleaves with its awaits.
StartGame(beats) ==
    /\ ~isRunning /\ ~isGameOver
    /\ upcomingBeats' = beats
    /\ beatIndex' = 0
    /\ notes' = <<>>
    /\ scoringSystem' = ScoringReset
    /\ isRunning' = TRUE
    /\ isPaused' = FALSE
    /\ isGameOver' = FALSE
    /\ endTimeout' = "null"
    /\ scored' = [i \in 1 .. Len(beats) |-> <<>>]
    /\ audit' = AuditReset
    /\ world' = [world EXCEPT !.playing = TRUE]
    /\ timing' = [lastYouTubeTime |-> world.playerTime,
                  lastYouTubeTimeUpdate |-> world.now,
                  interpolatedTime |-> world.playerTime]
    /\ UNCHANGED <<beatVars, page, sideVars, pureVars>>

\* The fields of the engine and of the scoring system that a frame or a
\* keypress may change, with the history kept beside them.
Core ==
    [beatIndex |-> beatIndex, notes |-> notes, scoringSystem |-> scoringSystem,
     endTimeout |-> endTimeout, scored |-> scored, audit |-> audit]

\* update(currentTime): what it leaves of Core.
update(currentTime) ==
    LET sp == spawnNotes(upcomingBeats, beatIndex, notes, currentTime)
        up == updateNotes([Core EXCEPT !.beatIndex = sp.beatIndex, !.notes = sp.notes],
                          1, currentTime)
        kept == SelectSeq(up.notes, keepNote)
    IN  [up EXCEPT !.notes = kept,
                   !.endTimeout = IF up.beatIndex >= Len(upcomingBeats) /\ kept = <<>>
                                     /\ endTimeout = "null"
                                  THEN "pending" ELSE endTimeout]

\* gameLoop for a frame whose interpolated playback time is currentTime.
gameLoop(currentTime) ==
    IF ~isRunning \/ isPaused THEN Core ELSE update(currentTime)

\* The bound handleKeyPress callback for a press whose interpolated playback
\* time is currentTime.
keyPressed(lane, currentTime) ==
    IF isPaused \/ isGameOver THEN Core ELSE handleKeyPress(Core, lane, currentTime)

SetCore(c) ==
    /\ beatIndex' = c.beatIndex
    /\ notes' = c.notes
    /\ scoringSystem' = c.scoringSystem
    /\ endTimeout' = c.endTimeout
    /\ scored' = c.scored
    /\ audit' = c.audit

\* An animation frame arrives while the frame loop is scheduled.
GameLoop(currentTime) ==
    /\ isRunning
    /\ SetCore(gameLoop(currentTime))
    /\ UNCHANGED <<upcomingBeats, isRunning, isPaused, isGameOver, clockVars,
                   beatVars, page, sideVars, pureVars>>

\* A lane key goes down while the input handler listens (between
\* inputHandler.start() and stop(), which is while isRunning here).
KeyPress(lane, currentTime) ==
    /\ isRunning
    /\ SetCore(keyPressed(lane, currentTime))
    /\ UNCHANGED <<upcomingBeats, isRunning, isPaused, isGameOver, clockVars,
                   beatVars, page, sideVars, pureVars>>

\* endGame, as far as the core state goes; timer is what the caller leaves in
\* endTimeout when endGame returns at once.
EndGame(timer) ==
    IF isGameOver
    THEN /\ endTimeout' = timer
         /\ UNCHANGED <<isGameOver, isRunning, world>>
    ELSE /\ isGameOver' = TRUE
         /\ isRunning' = FALSE
         /\ world' = [world EXCEPT !.playing = FALSE]
         /\ endTimeout' = "null"

\* The 2 s end-of-run timer fires.
EndTimeoutFires ==
    /\ endTimeout = "pending"
    /\ EndGame("expired")
    /\ UNCHANGED <<upcomingBeats, beatIndex, notes, scoringSystem, isPaused, scored,
                   audit, timing, beatVars, page, sideVars, pureVars>>

Next ==
    \/ \E beats \in Schedules : StartGame(beats)
    \/ \E t \in ClockValues : GameLoop(t)
    \/ \E lane \in KeyLanes, t \in ClockValues : KeyPress(lane, t)
    \/ EndTimeoutFires

Spec == Init /\ [][Next]_vars

(***************************************************************************)
(* Frames alone (no key is pressed), with the history of the playback      *)
(* times update() was given.                                               *)
(***************************************************************************)
spawnTime(b) == upcomingBeats[b].time - noteSpawnOffset

GameLoopTraced(currentTime) ==
    /\ isRunning
    /\ SetCore([gameLoop(currentTime) EXCEPT
                  !.audit.maxClock = Max2(@, currentTime),
                  !.audit.wentBack = @ \/ currentTime < audit.maxClock])
    /\ UNCHANGED <<upcomingBeats, isRunning, isPaused, isGameOver, clockVars,
                   beatVars, page, sideVars, pureVars>>

NextFrames ==
    \/ \E beats \in Schedules : StartGame(beats)
    \/ \E t \in ClockValues : GameLoopTraced(t)
    \/ EndTimeoutFires

SpecFrames == Init /\ [][NextFrames]_vars

(***************************************************************************)
(* Gameplay while the frame loop keeps running: requestAnimationFrame is   *)
(* re-armed by every frame, and the playback goes on, so that a frame that *)
(* changes the state eventually comes while one can.  The schedules are    *)
(* those of one beat at most.                                              *)
(***************************************************************************)
LiveSchedules == {b \in Schedules : Len(b) <= 1}

NextLive ==
    \/ \E beats \in LiveSchedules : StartGame(beats)
    \/ \E t \in ClockValues : GameLoop(t)
    \/ \E lane \in KeyLanes, t \in ClockValues : KeyPress(lane, t)
    \/ EndTimeoutFires

SpecLive ==
    Init /\ [][NextLive]_vars /\ WF_vars(\E t \in ClockValues : GameLoop(t))

(***************************************************************************)
(* The engine with its own clock.  The wall clock and the player's time    *)
(* advance in Tick; a frame's timestamp and a keypress's performance.now() *)
(* are the wall clock at that moment.  The player's time never goes back,  *)
(* in a tick it advances as the wall clock does or not at all, and it is   *)
(* never more than MaxLag behind the wall clock (pauses included).         *)
(***************************************************************************)
calibrationOffset == 150
ResampleAfter == 100

\* The player queried already at exactly 100 ms since the last sample.
getInterpolatedPlaybackTimeEager(tm, currentTime, playerTime) ==
    LET timeSinceLastUpdate == currentTime - tm.lastYouTubeTimeUpdate
        next == IF timeSinceLastUpdate >= ResampleAfter
                THEN [lastYouTubeTime |-> playerTime,
                      lastYouTubeTimeUpdate |-> currentTime,
                      interpolatedTime |-> playerTime]
                ELSE [tm EXCEPT !.interpolatedTime = tm.lastYouTubeTime + timeSinceLastUpdate]
    IN  [timing |-> next, playbackTime |-> next.interpolatedTime + calibrationOffset]

\* getInterpolatedPlaybackTime(currentTime) when youtubePlayer.getCurrentTime()
\* is playerTime: the timing fields it leaves and the value it returns.
getInterpolatedPlaybackTime(tm, currentTime, playerTime) ==
    LET timeSinceLastUpdate == currentTime - tm.lastYouTubeTimeUpdate
        next == IF timeSinceLastUpdate > ResampleAfter
                THEN [lastYouTubeTime |-> playerTime,
                      lastYouTubeTimeUpdate |-> currentTime,
                      interpolatedTime |-> playerTime]
                ELSE [tm EXCEPT !.interpolatedTime = tm.lastYouTubeTime + timeSinceLastUpdate]
    IN  [timing |-> next, playbackTime |-> next.interpolatedTime + calibrationOffset]

Untouched == [core |-> Core, timing |-> timing]

\* gameLoop(world.now): what it leaves of Core and of the timing fields.
gameLoopTimed ==
    IF ~isRunning \/ isPaused THEN Untouched
    ELSE LET s == getInterpolatedPlaybackTime(timing, world.now, world.playerTime) IN
         [core |-> update(s.playbackTime), timing |-> s.timing]

keyPressedTimedUnguarded(lane) ==
    LET s == getInterpolatedPlaybackTime(timing, world.now, world.playerTime) IN
    [core |-> handleKeyPress(Core, lane, s.playbackTime), timing |-> s.timing]

\* handleKeyPress(lane, pressTime) at wall-clock time world.now.
keyPressedTimed(lane) ==
    IF isPaused \/ isGameOver THEN Untouched
    ELSE LET s == getInterpolatedPlaybackTime(timing, world.now, world.playerTime) IN
         [core |-> handleKeyPress(Core, lane, s.playbackTime), timing |-> s.timing]

WallSteps == {50, 1750}

ClockSchedules == {<<[time |-> 2000, lane |-> 0]>>}

\* Time passes: the wall clock by dNow, the player's time by dPlayer.
Tick(dNow, dPlayer) ==
    /\ isRunning
    /\ world.now + dNow <= MaxWall
    /\ (world.now + dNow) - (world.playerTime + dPlayer) <= MaxLag
    /\ dPlayer = 0 \/ world.playing
    /\ world' = [world EXCEPT !.now = @ + dNow, !.playerTime = @ + dPlayer]
    /\ UNCHANGED <<engineVars, scoringSystem, audit, timing, beatVars, page, sideVars, pureVars>>

Frame ==
    /\ isRunning
    /\ SetCore(gameLoopTimed.core)
    /\ timing' = gameLoopTimed.timing
    /\ UNCHANGED <<upcomingBeats, isRunning, isPaused, isGameOver, world, beatVars, page, sideVars, pureVars>>

KeyDown(lane) ==
    /\ isRunning
    /\ SetCore(keyPressedTimed(lane).core)
    /\ timing' = keyPressedTimed(lane).timing
    /\ UNCHANGED <<upcomingBeats, isRunning, isPaused, isGameOver, world, beatVars, page, sideVars, pureVars>>

\* The Escape key while the input handler listens: pause() or resume().
HandlePause ==
    /\ isRunning
    /\ ~isGameOver
    /\ isPaused' = ~isPaused
    /\ world' = [world EXCEPT !.playing = isPaused]
    /\ UNCHANGED <<upcomingBeats, beatIndex, notes, scoringSystem, isRunning, isGameOver,
                   endTimeout, scored, audit, timing, beatVars, page, sideVars, pureVars>>

NextClock ==
    \/ \E beats \in ClockSchedules : StartGame(beats)
    \/ \E dNow \in WallSteps : \E dPlayer \in {0, dNow} : Tick(dNow, dPlayer)
    \/ Frame
    \/ \E lane \in KeyLanes : KeyDown(lane)
    \/ HandlePause
    \/ EndTimeoutFires

SpecClock == Init /\ [][NextClock]_vars

(***************************************************************************)
(* The life cycle of a run.  startGame is asynchronous: between its call   *)
(* and its last statement it waits for the IFrame API script (the first    *)
(* time), for the player's onReady and for the countdown, and every        *)
(* callback of the page may run during these waits.  page.startGame is the *)
(* wait the startGame in progress is at.  The waits on promises that are   *)
(* already resolved (init() once the API is loaded, a rejected loadVideo)  *)
(* let no callback in, and neither is taken to do                          *)
(* audioAnalyzer.resume(): the state during it is the one of the           *)
(* loadVideo wait.                                                         *)
(*                                                                         *)
(* The playback time of a frame or a keypress is an input, as in Spec.     *)
(* While loadVideo waits the player object is the new one and is not ready *)
(* yet: what its getCurrentTime() does then is not in the source, so a     *)
(* clock sample of that wait returns any value or throws, which ends the   *)
(* callback it was called in (AnimationFrameThrows).  pause() and play()   *)
(* of the player are taken to return, and to start no playback before the  *)
(* player is ready.                                                        *)
(*                                                                         *)
(* page.frames counts the pending requestAnimationFrame callbacks and      *)
(* page.idPending tells whether animationFrameId is one of them;           *)
(* page.timers counts the pending callbacks of update()'s setTimeout, and  *)
(* page.shown the calls of showResults since the last call of startGame.   *)
(* page.expectedNotes is scoringSystem.expectedNotes (0 while unset) and   *)
(* page.spawned the notes spawnNotes() created since the last reset();     *)
(* page.quit tells that quit() was called after the last call of           *)
(* startGame().                                                            *)
(***************************************************************************)
MaxLoops == 2

\* The URL input's values, by what handleStart and extractVideoId make of
\* them: empty, without "youtube.com" and "youtu.be", with one of them but
\* matching neither pattern of extractVideoId, and matching one.
Urls == {"empty", "other", "noId", "video"}

\* handleStart's tests of the trimmed URL.
passesHandleStart(url) == url \notin {"empty", "other"}

\* YouTubePlayerManager.extractVideoId(url)
extractVideoId(url) == IF url = "video" THEN "id" ELSE "null"

\* Every field a callback of the page may change.
Engine ==
    [upcomingBeats |-> upcomingBeats, beatIndex |-> beatIndex, notes |-> notes,
     scoringSystem |-> scoringSystem, isRunning |-> isRunning, isPaused |-> isPaused,
     isGameOver |-> isGameOver, endTimeout |-> endTimeout, scored |-> scored,
     audit |-> audit, timing |-> timing, playing |-> world.playing, page |-> page]

\* uiManager.showScreen(screenName): the pause screen is one of the screens
\* it hides.
showScreen(e, screenName) ==
    [e EXCEPT !.page.screen = screenName, !.page.pauseMenu = FALSE]

\* uiManager.showResults(stats)
showResults(e) == showScreen([e EXCEPT !.page.shown = @ + 1], "results")

\* uiManager.togglePause(show)
togglePause(e, show) == [e EXCEPT !.page.pauseMenu = show]

\* cancelAnimationFrame(this.animationFrameId)
cancelAnimationFrame(e) ==
    IF e.page.idPending
    THEN [e EXCEPT !.page.frames = @ - 1, !.page.idPending = FALSE]
    ELSE e

\* if (this.endTimeout) { clearTimeout(this.endTimeout); this.endTimeout = null; }
clearEndTimeout(e) ==
    [e EXCEPT !.endTimeout = "null",
              !.page.timers = IF e.endTimeout = "pending" THEN @ - 1 ELSE @]

\* The player exists and is ready: play() starts the playback.
playerReady(e) == e.page.startGame \notin {"init", "loadVideo"}

\* GameEngine.reset()
reset(e) ==
    [clearEndTimeout(e) EXCEPT
              !.notes = <<>>, !.beatIndex = 0, !.isGameOver = FALSE,
              !.isPaused = FALSE, !.scoringSystem = ScoringReset,
              !.scored = [i \in 1 .. MaxBeats |-> <<>>], !.audit = AuditReset,
              !.page.spawned = 0]

\* GameEngine.pause()
pause(e) == togglePause([e EXCEPT !.isPaused = TRUE, !.playing = FALSE], TRUE)

\* GameEngine.resume()
resume(e) ==
    togglePause([e EXCEPT !.isPaused = FALSE, !.playing = playerReady(e)], FALSE)

\* GameEngine.handlePause()
handlePause(e) ==
    IF e.isGameOver THEN e ELSE IF e.isPaused THEN resume(e) ELSE pause(e)

\* GameEngine.stop()
stop(e) ==
    [clearEndTimeout(cancelAnimationFrame(e)) EXCEPT
        !.isRunning = FALSE, !.isPaused = FALSE, !.page.listening = FALSE,
        !.playing = FALSE]

\* GameEngine.quit()
quit(e) == showScreen(togglePause([stop(e) EXCEPT !.page.quit = TRUE], FALSE), "start")

endGameKeepsRunning(e) ==
    IF e.isGameOver THEN e
    ELSE showResults([clearEndTimeout(cancelAnimationFrame(e)) EXCEPT
                        !.isGameOver = TRUE, !.page.listening = FALSE,
                        !.playing = FALSE])

\* GameEngine.endGame()
endGame(e) ==
    IF e.isGameOver THEN e
    ELSE showResults([clearEndTimeout(cancelAnimationFrame(e)) EXCEPT
                        !.isGameOver = TRUE, !.isRunning = FALSE,
                        !.page.listening = FALSE, !.playing = FALSE])

\* The catch block of startGame.
startFailed(e) ==
    [showScreen(e, "start") EXCEPT !.page.error = TRUE, !.page.startGame = "none"]

\* youtubePlayer.loadVideo(url) as startGame awaits it: rejected at once
\* without a video id, else the old player is destroyed and onReady or
\* onError is awaited.
loadVideo(e, url) ==
    IF extractVideoId(url) = "null" THEN startFailed(e)
    ELSE [e EXCEPT !.page.startGame = "loadVideo", !.playing = FALSE]

\* GameEngine.startGame(url, difficulty) up to its first wait.
startGame(e, url) ==
    LET r == showScreen([reset(e) EXCEPT !.page.shown = 0, !.page.quit = FALSE],
                        "loading") IN
    IF r.page.api THEN loadVideo(r, url) ELSE [r EXCEPT !.page.startGame = "init"]

\* GameEngine.restart()
restart(e) == startGame(togglePause(e, FALSE), e.page.url)

\* UIManager.handleStart() with url in the URL input, and the onStart
\* callback it calls (nothing of the engine runs while onStart waits for
\* the history to be saved).
handleStart(e, url) ==
    LET typed == [e EXCEPT !.page.url = url] IN
    IF ~passesHandleStart(url) THEN [typed EXCEPT !.page.error = TRUE]
    ELSE startGame([typed EXCEPT !.page.error = FALSE], url)

\* startGame after init() resolved.
initDone(e) == loadVideo([e EXCEPT !.page.api = TRUE], e.page.url)

\* startGame from onReady to the countdown; beats is what
\* generateBeatsForDuration returned.
videoReady(e, beats) ==
    showScreen([e EXCEPT !.upcomingBeats = beats, !.beatIndex = 0,
                         !.page.expectedNotes = Len(beats),
                         !.page.startGame = "countdown"], "game")

\* startGame after the countdown.
countdownDone(e) ==
    [e EXCEPT !.page.listening = TRUE, !.playing = TRUE, !.isRunning = TRUE,
              !.isPaused = FALSE, !.isGameOver = FALSE,
              !.timing = [lastYouTubeTime |-> world.playerTime,
                          lastYouTubeTimeUpdate |-> world.now,
                          interpolatedTime |-> world.playerTime],
              !.page.frames = @ + 1, !.page.idPending = TRUE,
              !.page.startGame = "none"]

\* e with the fields update() or handleKeyPress() left in c; a timer is
\* pending more when update() called setTimeout.
WithCore(e, c) ==
    [e EXCEPT !.beatIndex = c.beatIndex, !.notes = c.notes,
              !.scoringSystem = c.scoringSystem, !.endTimeout = c.endTimeout,
              !.scored = c.scored, !.audit = c.audit,
              !.page.timers = IF c.endTimeout = "pending" /\ e.endTimeout # "pending"
                              THEN @ + 1 ELSE @,
              !.page.spawned = @ + (c.beatIndex - e.beatIndex)]

\* A pending frame callback is taken off the list; named: it is the one
\* animationFrameId names.
frameTaken(named) ==
    [Engine EXCEPT !.page.frames = @ - 1, !.page.idPending = @ /\ ~named]

\* A requestAnimationFrame callback runs gameLoop with a clock sample of
\* currentTime.
animationFrame(named, currentTime) ==
    IF ~isRunning THEN frameTaken(named)
    ELSE [WithCore(Engine, gameLoop(currentTime)) EXCEPT !.page.idPending = TRUE]

\* The keydown listener of the input handler for a lane key.
laneKey(lane, currentTime) ==
    IF page.listening THEN WithCore(Engine, keyPressed(lane, currentTime)) ELSE Engine

\* The keydown listener of the input handler for Escape.
escapeKey == IF page.listening THEN handlePause(Engine) ELSE Engine

\* The visibilitychange listener when the tab gets hidden.
tabHidden == IF isRunning /\ ~isPaused THEN pause(Engine) ELSE Engine

endTimeoutFiredIdle == [Engine EXCEPT !.endTimeout = "expired", !.page.timers = @ - 1]

\* The callback of the 2 s timer of update().
endTimeoutFired ==
    endGame([Engine EXCEPT !.endTimeout = "expired", !.page.timers = @ - 1])

\* The player's state change to ENDED, and the callback init() registered.
playerEnded == endGame([Engine EXCEPT !.playing = FALSE])

SetEngine(e) ==
    /\ upcomingBeats' = e.upcomingBeats
    /\ beatIndex' = e.beatIndex
    /\ notes' = e.notes
    /\ scoringSystem' = e.scoringSystem
    /\ isRunning' = e.isRunning
    /\ isPaused' = e.isPaused
    /\ isGameOver' = e.isGameOver
    /\ endTimeout' = e.endTimeout
    /\ scored' = e.scored
    /\ audit' = e.audit
    /\ timing' = e.timing
    /\ world' = [world EXCEPT !.playing = e.playing]
    /\ page' = e.page
    /\ UNCHANGED <<beatVars, sideVars, pureVars>>

\* The schedules of the runs: none or one beat; the playback times of their
\* frames and presses: before the beat, on it, past the miss tolerance and
\* past the removal cut-off; the key of the beat's lane.
RunSchedules == {<<>>, <<[time |-> 2000, lane |-> 0]>>}

RunClock == {0, 2000, 2000 + MissTolerance + 50, 2000 + RemoveCutoff + 100}

RunLanes == {0}

\* A click on Play (or Enter in the URL input) with url in the input; one
\* startGame is in progress at a time.
ClickStart(url) ==
    /\ page.screen = "start" /\ ~page.pauseMenu
    /\ page.startGame = "none"
    /\ SetEngine(handleStart(Engine, url))

\* The pause screen's buttons.
ClickResume == page.pauseMenu /\ SetEngine(resume(Engine))

ClickRestart ==
    /\ page.pauseMenu
    /\ page.startGame = "none"
    /\ SetEngine(restart(Engine))

ClickQuit == page.pauseMenu /\ SetEngine(quit(Engine))

\* The results screen's buttons.
ClickPlayAgain ==
    /\ page.screen = "results" /\ ~page.pauseMenu
    /\ page.startGame = "none"
    /\ SetEngine(restart(Engine))

ClickNewSong ==
    /\ page.screen = "results" /\ ~page.pauseMenu
    /\ SetEngine(quit(Engine))

\* The waits of startGame end.
InitDone == page.startGame = "init" /\ SetEngine(initDone(Engine))

InitFails == page.startGame = "init" /\ SetEngine(startFailed(Engine))

VideoReady(beats) == page.startGame = "loadVideo" /\ SetEngine(videoReady(Engine, beats))

VideoFails == page.startGame = "loadVideo" /\ SetEngine(startFailed(Engine))

CountdownDone ==
    /\ page.startGame = "countdown"
    /\ page.frames < MaxLoops
    /\ SetEngine(countdownDone(Engine))

\* A pending frame callback runs.
AnimationFrame(named, currentTime) ==
    /\ page.frames > 0
    /\ named => page.idPending
    /\ ~named => page.frames > (IF page.idPending THEN 1 ELSE 0)
    /\ SetEngine(animationFrame(named, currentTime))

\* A pending frame callback runs, and its clock sample throws.
AnimationFrameThrows(named) ==
    /\ page.frames > 0
    /\ named => page.idPending
    /\ ~named => page.frames > (IF page.idPending THEN 1 ELSE 0)
    /\ isRunning /\ ~isPaused
    /\ page.startGame = "loadVideo"
    /\ SetEngine(frameTaken(named))

LaneKey(lane, currentTime) ==
    /\ page.listening
    /\ SetEngine(laneKey(lane, currentTime))

EscapeKey == page.listening /\ SetEngine(escapeKey)

TabHidden == isRunning /\ ~isPaused /\ SetEngine(tabHidden)

EndTimeoutFired == page.timers > 0 /\ SetEngine(endTimeoutFired)

PlayerEnded == world.playing /\ SetEngine(playerEnded)

NextRun ==
    \/ \E url \in Urls : ClickStart(url)
    \/ ClickResume
    \/ ClickRestart
    \/ ClickQuit
    \/ ClickPlayAgain
    \/ ClickNewSong
    \/ InitDone
    \/ InitFails
    \/ \E beats \in RunSchedules : VideoReady(beats)
    \/ VideoFails
    \/ CountdownDone
    \/ \E named \in BOOLEAN, t \in RunClock : AnimationFrame(named, t)
    \/ \E named \in BOOLEAN : AnimationFrameThrows(named)
    \/ \E lane \in RunLanes, t \in RunClock : LaneKey(lane, t)
    \/ EscapeKey
    \/ TabHidden
    \/ EndTimeoutFired
    \/ PlayerEnded

SpecRun == Init /\ [][NextRun]_vars

(***************************************************************************)
(* Runs that are played to their end: started from the start screen or     *)
(* with Play Again, paused and resumed, never quit or restarted from the   *)
(* pause screen.  The frame loop re-arms itself in every frame (strong     *)
(* fairness: pauses make the frames idle again and again), the timer       *)
(* fires 2 s after setTimeout, and the player resumes a paused game.       *)
(***************************************************************************)
NextRunLive ==
    \/ \E url \in Urls : ClickStart(url)
    \/ ClickResume
    \/ ClickPlayAgain
    \/ InitDone
    \/ \E beats \in RunSchedules : VideoReady(beats)
    \/ CountdownDone
    \/ \E named \in BOOLEAN, t \in RunClock : AnimationFrame(named, t)
    \/ \E lane \in RunLanes, t \in RunClock : LaneKey(lane, t)
    \/ EscapeKey
    \/ TabHidden
    \/ EndTimeoutFired
    \/ PlayerEnded

SpecRunLive ==
    /\ Init /\ [][NextRunLive]_vars
    /\ SF_vars(\E named \in BOOLEAN, t \in RunClock : AnimationFrame(named, t))
    /\ WF_vars(EndTimeoutFired)
    /\ WF_vars(ClickResume)

(***************************************************************************)
(* The scoring system on its own: any sequence of processHit and reset.    *)
(***************************************************************************)
ProcessHitCall(result) ==
    /\ scoringSystem.totalNotes < MaxCalls
    /\ scoringSystem' = processHit(scoringSystem, result)
    /\ audit' = Audited(audit, scoringSystem, result)
    /\ UNCHANGED <<engineVars, clockVars, beatVars, page, sideVars, pureVars>>

ResetCall ==
    /\ scoringSystem' = ScoringReset
    /\ audit' = AuditReset
    /\ UNCHANGED <<engineVars, clockVars, beatVars, page, sideVars, pureVars>>

NextScoring ==
    \/ \E result \in Results : ProcessHitCall(result)
    \/ ResetCall

SpecScoring == Init /\ [][NextScoring]_vars

(***************************************************************************)
(* The pure functions judgeHit and getComboMultiplier on drawn inputs.     *)
(***************************************************************************)
PureInputs ==
    [fn : {"judgeHit"}, x : (-MaxDelta) .. MaxDelta]
        \cup [fn : {"getComboMultiplier"}, x : 0 .. MaxComboIn]

InitPure ==
    /\ upcomingBeats = <<>>
    /\ beatIndex = 0
    /\ notes = <<>>
    /\ scoringSystem = ScoringReset
    /\ isRunning = FALSE
    /\ isPaused = FALSE
    /\ isGameOver = FALSE
    /\ endTimeout = "null"
    /\ scored = <<>>
    /\ audit = AuditReset
    /\ timing = TimingInit
    /\ world = WorldInit
    /\ genArgs = NoArgs
    /\ audioAnalyzer = AnalyzerInit
    /\ page = PageInit
    /\ loader = LoaderInit
    /\ history = HistoryInit
    /\ pureIn \in PureInputs
    /\ pureOut = <<>>

ApplyJudgeHit ==
    /\ pureIn.fn = "judgeHit"
    /\ pureOut = <<>>
    /\ pureOut' = <<judgeHit(pureIn.x)>>
    /\ UNCHANGED <<engineVars, scoringSystem, audit, clockVars, beatVars, page, sideVars, pureIn>>

ApplyGetComboMultiplier ==
    /\ pureIn.fn = "getComboMultiplier"
    /\ pureOut = <<>>
    /\ pureOut' = <<getComboMultiplier(pureIn.x)>>
    /\ UNCHANGED <<engineVars, scoringSystem, audit, clockVars, beatVars, page, sideVars, pureIn>>

NextPure == ApplyJudgeHit \/ ApplyGetComboMultiplier

SpecPure == InitPure /\ [][NextPure]_vars

(***************************************************************************)
(* AudioAnalyzer.generateBeatsForDuration (times in microseconds).         *)
(***************************************************************************)
MaxDuration == 4700000

GenStart == 2000000
GenTail == 2000000
minGap == MinLaneGap * 1000
NoLane == -1

Difficulties == {"easy", "medium", "hard"}

\* difficultySettings[difficulty].maxNotes, in tenths
maxNotes(difficulty) ==
    CASE difficulty = "easy" -> 3
      [] difficulty = "medium" -> 6
      [] OTHER -> 10

\* Some of the values estimateBPMForDifficulty returns (80-119, 100-139,
\* 120-179), those for which a quarter of a beat is a whole number.
estimateBPMForDifficulty(difficulty) ==
    CASE difficulty = "easy" -> {100}
      [] difficulty = "medium" -> {120}
      [] OTHER -> {160}

beatInterval(bpm) == 60000000 \div bpm

\* The outcomes of the Math.random() calls of one pass of the loop: the lane
\* of the main beat (NoLane when Math.random() < maxNotes fails, which it
\* cannot when maxNotes is 1.0), the lane of the subdivision (NoLane when it
\* is not added) and the lanes of the two rapid notes (<<>> when not added).
Draws(difficulty) ==
    [main : IF maxNotes(difficulty) < 10 THEN Lanes \cup {NoLane} ELSE Lanes,
     sub : IF difficulty # "easy" THEN Lanes \cup {NoLane} ELSE {NoLane},
     rapid : IF difficulty = "hard" THEN (Lanes \X Lanes) \cup {<<>>} ELSE {<<>>}]

Beat(time, lane) == [time |-> time, lane |-> lane]

\* What one pass of the loop pushes, in the order it pushes.
passBeats(currentTime, endTime, interval, d) ==
    LET subdivision == currentTime + interval \div 2
        rapid1 == currentTime + interval \div 4
        rapid2 == currentTime + (interval * 3) \div 4
    IN  (IF d.main # NoLane THEN <<Beat(currentTime, d.main)>> ELSE <<>>)
        \o (IF d.sub # NoLane /\ subdivision < endTime
            THEN <<Beat(subdivision, d.sub)>> ELSE <<>>)
        \o (IF d.rapid # <<>> /\ rapid1 < endTime
            THEN <<Beat(rapid1, d.rapid[1])>> ELSE <<>>)
        \o (IF d.rapid # <<>> /\ rapid2 < endTime
            THEN <<Beat(rapid2, d.rapid[2])>> ELSE <<>>)

\* The number of passes of while (currentTime < endTime).
passes(duration, bpm) ==
    Cardinality({j \in 0 .. MaxDuration \div beatInterval(bpm) :
                    GenStart + j * beatInterval(bpm) < duration - GenTail})

\* this.beats when the loop ends, pass j drawing draws[j].
RECURSIVE pushed(_, _, _, _)
pushed(duration, bpm, draws, j) ==
    IF j > Len(draws) THEN <<>>
    ELSE passBeats(GenStart + (j - 1) * beatInterval(bpm), duration - GenTail,
                   beatInterval(bpm), draws[j])
         \o pushed(duration, bpm, draws, j + 1)

sortByTimeNone(bs) == bs

\* Array.prototype.sort with (a, b) => a.time - b.time: a stable sort.
RECURSIVE insertBeat(_, _)
insertBeat(sorted, b) ==
    IF sorted = <<>> THEN <<b>>
    ELSE IF sorted[Len(sorted)].time <= b.time THEN Append(sorted, b)
    ELSE Append(insertBeat(SubSeq(sorted, 1, Len(sorted) - 1), b), sorted[Len(sorted)])

RECURSIVE sortFrom(_, _, _)
sortFrom(bs, i, sorted) ==
    IF i > Len(bs) THEN sorted ELSE sortFrom(bs, i + 1, insertBeat(sorted, bs[i]))

sortByTime(bs) == sortFrom(bs, 1, <<>>)

\* preventOverlaps from position i on (1-based): every list it can leave, one
\* for each outcome of its Math.random() calls.
RECURSIVE preventFrom(_, _)
preventFrom(bs, i) ==
    IF i > Len(bs) THEN {bs}
    ELSE IF bs[i].lane = bs[i - 1].lane /\ bs[i].time - bs[i - 1].time < minGap
         THEN UNION {preventFrom([bs EXCEPT ![i].lane = l], i + 1) :
                        l \in Lanes \ {bs[i - 1].lane}}
         ELSE preventFrom(bs, i + 1)

preventOverlapsNone(bs) == {bs}

preventOverlaps(bs) == preventFrom(bs, 2)

\* Every list generateBeatsForDuration can return when pass j of its loop
\* draws draws[j].
generateBeatsForDuration(duration, difficulty, bpm, draws) ==
    preventOverlaps(sortByTime(pushed(duration, bpm, draws, 1)))

Durations == {3000000, 4000000, 4300000, MaxDuration}

InitBeats ==
    /\ upcomingBeats = <<>>
    /\ beatIndex = 0
    /\ notes = <<>>
    /\ scoringSystem = ScoringReset
    /\ isRunning = FALSE
    /\ isPaused = FALSE
    /\ isGameOver = FALSE
    /\ endTimeout = "null"
    /\ scored = <<>>
    /\ audit = AuditReset
    /\ timing = TimingInit
    /\ world = WorldInit
    /\ \E duration \in Durations, difficulty \in Difficulties :
          \E bpm \in estimateBPMForDifficulty(difficulty) :
             genArgs \in [duration : {duration}, difficulty : {difficulty}, bpm : {bpm},
                          draws : [1 .. passes(duration, bpm) -> Draws(difficulty)]]
    /\ audioAnalyzer = AnalyzerInit
    /\ page = PageInit
    /\ loader = LoaderInit
    /\ history = HistoryInit
    /\ pureIn = [fn |-> "none", x |-> 0]
    /\ pureOut = <<>>

\* startGame's call of generateBeatsForDuration.
GenerateBeats ==
    /\ ~audioAnalyzer.generated
    /\ \E bs \in generateBeatsForDuration(genArgs.duration, genArgs.difficulty,
                                           genArgs.bpm, genArgs.draws) :
          audioAnalyzer' = [beats |-> bs, generated |-> TRUE]
    /\ UNCHANGED <<engineVars, scoringSystem, audit, clockVars, genArgs, page, sideVars, pureVars>>

NextBeats == GenerateBeats

SpecBeats == InitBeats /\ [][NextBeats]_vars

(***************************************************************************)
(* Definitions the properties are stated with.                             *)
(***************************************************************************)
\* The multiplier table as documented (in halves).
TableMultiplier(c) ==
    IF c <= 9 THEN 2 ELSE IF c <= 24 THEN 3 ELSE IF c <= 49 THEN 4
    ELSE IF c <= 99 THEN 5 ELSE 6

TableBase(r) == IF r = "perfect" THEN 100 ELSE IF r = "good" THEN 50 ELSE 0

\* The timing windows as documented.
WindowOf(d) ==
    IF Abs(d) <= 50 THEN "perfect" ELSE IF Abs(d) <= 100 THEN "good" ELSE "miss"

HitResults == {"perfect", "good"}

ActiveInLane(lane) ==
    {i \in 1 .. Len(notes) : notes[i].lane = lane /\ notes[i].status = "active"}

Dist(i, t) == Abs(notes[i].hitTime - t)

\* The note of beat b has been spawned and is no longer in the collection.
Gone(b) == b <= beatIndex /\ \A i \in 1 .. Len(notes) : notes[i].beat # b

WasHit(b) == \E k \in 1 .. Len(scored[b]) : scored[b][k] \in HitResults

NotesHit == Cardinality({b \in DOMAIN scored : WasHit(b)})

S10 == <<[time |-> 2000, lane |-> 0], [time |-> 4000, lane |-> 1]>>

(***************************************************************************)
(* C1: every note causes at most one processHit call (hit or miss) over    *)
(* its whole life, for any interleaving of frames and keypresses.          *)
(***************************************************************************)
C1_AtMostOneScoringUpdate == \A b \in DOMAIN scored : Len(scored[b]) <= 1

\* A note that a keypress scored has since faded out of the collection.
C1_Witness ==
    \E b \in DOMAIN scored : Gone(b) /\ Len(scored[b]) = 1 /\ scored[b][1] \in HitResults

(***************************************************************************)
(* C2: a spawned note that no keypress hits has its miss recorded exactly  *)
(* once by the time it leaves the collection, whatever the gap between     *)
(* two frames.                                                             *)
(***************************************************************************)
C2_MissRecordedOnce ==
    \A b \in DOMAIN scored : (Gone(b) /\ ~WasHit(b)) => scored[b] = <<"miss">>

(***************************************************************************)
(* C3: score is the sum of the scoreEarned values processHit returned      *)
(* since reset; each call adds floor(base * multiplier(combo after its     *)
(* increment)) with base 100, 50 or 0, so score is a natural number that   *)
(* no call decreases.                                                      *)
(***************************************************************************)
C3_ScoreIsSumOfEarned ==
    /\ scoringSystem.score = audit.earned
    /\ scoringSystem.score \in Nat
    /\ \A r \in Results :
          LET after == processHit(scoringSystem, r) IN
          /\ after.score - scoringSystem.score
                = (TableBase(r) * TableMultiplier(after.combo)) \div 2
          /\ after.score >= scoringSystem.score

\* The 2x multiplier has been applied to a good hit.
C3_Witness ==
    /\ scoringSystem.combo >= 25
    /\ audit.last = "good"
    /\ scoringSystem.score = audit.earned

(***************************************************************************)
(* C4: a hit raises combo by exactly 1 and a miss sets it to 0; maxCombo   *)
(* is the greatest combo reached since reset; k hits from a fresh state    *)
(* then one miss leave combo = 0, maxCombo = k and missCount = 1.          *)
(***************************************************************************)
C4_ComboRules ==
    /\ scoringSystem.maxCombo = audit.peak
    /\ scoringSystem.combo = audit.streak
    /\ (audit.nMiss = 1 /\ audit.last = "miss") =>
          /\ scoringSystem.combo = 0
          /\ scoringSystem.maxCombo = audit.nHit
          /\ scoringSystem.missCount = 1
    /\ \A r \in HitResults : processHit(scoringSystem, r).combo = scoringSystem.combo + 1
    /\ processHit(scoringSystem, "miss").combo = 0

\* Ten perfect hits from a fresh state, then one miss.
C4_Witness ==
    /\ audit.nMiss = 1 /\ audit.last = "miss" /\ audit.nHit = 10
    /\ scoringSystem.perfectCount = 10
    /\ scoringSystem.maxCombo = 10

(***************************************************************************)
(* C5: the combo multiplier is the non-decreasing step function 1 for      *)
(* 0..9, 1.5 for 10..24, 2 for 25..49, 2.5 for 50..99, 3 from 100 on.      *)
(***************************************************************************)
C5_MultiplierSteps ==
    (pureIn.fn = "getComboMultiplier" /\ pureOut # <<>>) =>
        /\ pureOut[1] = TableMultiplier(pureIn.x)
        /\ \A c \in 0 .. pureIn.x : getComboMultiplier(c) <= pureOut[1]

C5_Witness == pureIn = [fn |-> "getComboMultiplier", x |-> 100] /\ pureOut = <<6>>

(***************************************************************************)
(* C6: judgeHit(d) is perfect iff |d| <= 50 ms, good iff 50 < |d| <= 100   *)
(* ms, miss otherwise, the same for an early and a late delta.             *)
(***************************************************************************)
C6_JudgeWindows ==
    (pureIn.fn = "judgeHit" /\ pureOut # <<>>) =>
        /\ pureOut[1] = "perfect" <=> Abs(pureIn.x) <= 50
        /\ pureOut[1] = "good" <=> (50 < Abs(pureIn.x) /\ Abs(pureIn.x) <= 100)
        /\ pureOut[1] = "miss" <=> Abs(pureIn.x) > 100
        /\ pureOut[1] = judgeHit(-pureIn.x)

C6_Witness == pureIn = [fn |-> "judgeHit", x |-> -100] /\ pureOut = <<"good">>

(***************************************************************************)
(* C7: a keypress on a lane with no active note, or whose nearest active   *)
(* note is more than 150 ms away or judged outside the good window,        *)
(* changes no note and none of the scoring fields.                         *)
(***************************************************************************)
NoEligibleNote(lane, t) ==
    \/ ActiveInLane(lane) = {}
    \/ \A i \in ActiveInLane(lane) : Dist(i, t) > 150
    \/ \A i \in ActiveInLane(lane) : WindowOf(Dist(i, t)) = "miss"

C7_EmptyPressIsNoOp ==
    isRunning =>
        \A lane \in Lanes, t \in ClockValues :
            NoEligibleNote(lane, t) =>
                /\ keyPressed(lane, t).notes = notes
                /\ keyPressed(lane, t).scoringSystem = scoringSystem

\* A press went through the 150 ms gate, was judged a miss, and left the
\* note active and the scoring untouched.
C7_Witness ==
    /\ audit.gatedMiss
    /\ scoringSystem = ScoringReset
    /\ notes # <<>>
    /\ \A i \in 1 .. Len(notes) : notes[i].status = "active"

(***************************************************************************)
(* C8: a keypress on lane L hits at most one note, an active note of lane  *)
(* L nearest to the press time (the earliest spawned on a tie), and        *)
(* changes no other note.                                                  *)
(***************************************************************************)
C8_NearestActiveNoteOnly ==
    isRunning =>
        \A lane \in Lanes, t \in ClockValues :
            LET after == keyPressed(lane, t).notes
                changed == {i \in 1 .. Len(notes) : after[i] # notes[i]}
            IN  /\ Len(after) = Len(notes)
                /\ Cardinality(changed) <= 1
                /\ \A i \in changed :
                      /\ i \in ActiveInLane(lane)
                      /\ after[i].status = "hit"
                      /\ \A j \in ActiveInLane(lane) :
                            /\ Dist(i, t) <= Dist(j, t)
                            /\ Dist(j, t) = Dist(i, t) => i <= j

\* Of two notes of one lane the later one was hit while the earlier one is
\* still active.
C8_Witness ==
    \E i, j \in 1 .. Len(notes) :
        /\ i < j
        /\ notes[i].lane = notes[j].lane
        /\ notes[i].status = "active"
        /\ notes[j].status = "hit"

(***************************************************************************)
(* C9: a keypress that hits a note leaves it in status hit with the judge  *)
(* result (perfect or good) and increments exactly the matching counter;   *)
(* a note in the collection has a hit result iff its status is hit, and    *)
(* perfectCount + goodCount is the number of notes hit in the run.         *)
(***************************************************************************)
C9_HitRecordsResult ==
    /\ \A i \in 1 .. Len(notes) :
          notes[i].hitResult \in HitResults <=> notes[i].status = "hit"
    /\ scoringSystem.perfectCount + scoringSystem.goodCount = NotesHit
    /\ isRunning =>
          \A lane \in Lanes, t \in ClockValues :
             LET after == keyPressed(lane, t) IN
             after.notes # notes =>
                \E i \in ActiveInLane(lane) :
                   LET r == WindowOf(Dist(i, t)) IN
                   /\ r \in HitResults
                   /\ after.notes[i].status = "hit"
                   /\ after.notes[i].hitResult = r
                   /\ after.scoringSystem.perfectCount
                         = scoringSystem.perfectCount + (IF r = "perfect" THEN 1 ELSE 0)
                   /\ after.scoringSystem.goodCount
                         = scoringSystem.goodCount + (IF r = "good" THEN 1 ELSE 0)
                   /\ after.scoringSystem.missCount = scoringSystem.missCount

\* A note hit with result good is fading and is the only note hit so far.
C9_Witness ==
    \E i \in 1 .. Len(notes) :
        /\ notes[i].status = "hit"
        /\ notes[i].hitResult = "good"
        /\ notes[i].alphaSteps > 0
        /\ scoringSystem.goodCount = 1
        /\ scoringSystem.perfectCount = 0

(***************************************************************************)
(* C10: with schedule [(2 s, lane 0), (4 s, lane 1)] the frame at clock 0  *)
(* spawns the first note, no frame before clock 2 s spawns the second,     *)
(* and a lane-0 press at 2.03 s judges the first note perfect: status      *)
(* hit, score 100, combo 1.                                                *)
(***************************************************************************)
C10_Scenario ==
    (upcomingBeats = S10 /\ isRunning /\ ~isPaused) =>
        /\ beatIndex = 0 =>
              LET after == gameLoop(0) IN
              /\ after.beatIndex = 1
              /\ Len(after.notes) = 1
              /\ after.notes[1].hitTime = 2000 /\ after.notes[1].lane = 0
              /\ after.notes[1].status = "active"
        /\ beatIndex < 2 =>
              \A t \in {u \in ClockValues \cup {1999} : u < 2000} :
                  gameLoop(t).beatIndex < 2
        /\ (/\ scoringSystem = ScoringReset
            /\ Len(notes) >= 1 /\ notes[1].beat = 1 /\ notes[1].status = "active") =>
              LET after == keyPressed(0, 2030) IN
              /\ after.notes[1].status = "hit"
              /\ after.notes[1].hitResult = "perfect"
              /\ after.scoringSystem.score = 100
              /\ after.scoringSystem.combo = 1

\* The first note was hit perfect before the second was spawned.
C10_Witness ==
    /\ upcomingBeats = S10
    /\ beatIndex = 1
    /\ Len(notes) = 1 /\ notes[1].status = "hit" /\ notes[1].hitResult = "perfect"
    /\ scoringSystem.score = 100
    /\ scoringSystem.combo = 1

(***************************************************************************)
(* C11: while playing, the song time of the next clock sample, taken by a  *)
(* frame or by a keypress, is never below the song time of the last one,   *)
(* for a player time that never goes back but may lag behind the wall      *)
(* clock.                                                                  *)
(***************************************************************************)
C11_SongTimeNeverDecreases ==
    (isRunning /\ ~isPaused) =>
        /\ gameLoopTimed.timing.interpolatedTime >= timing.interpolatedTime
        /\ \A lane \in Lanes :
              keyPressedTimed(lane).timing.interpolatedTime >= timing.interpolatedTime

(***************************************************************************)
(* C12: during a run the beat cursor never decreases and every beat is     *)
(* made a Note at most once, in schedule order, also when the playback     *)
(* time given to the spawner goes backwards between two frames.            *)
(***************************************************************************)
C12_CursorForwardOnly ==
    /\ beatIndex \in 0 .. Len(upcomingBeats)
    /\ \A i \in 1 .. Len(notes) : notes[i].beat <= beatIndex
    /\ \A i, j \in 1 .. Len(notes) : i < j => notes[i].beat < notes[j].beat
    /\ isRunning =>
          \A t \in ClockValues :
             LET after == gameLoop(t) IN
             /\ after.beatIndex >= beatIndex
             /\ \A i \in 1 .. Len(after.notes) :
                   \/ after.notes[i].beat > beatIndex
                   \/ \E j \in 1 .. Len(notes) : notes[j].beat = after.notes[i].beat

\* The first of two beats was consumed by the first frame, the playback time
\* then went back, and the beat is still held once.
C12_Witness ==
    /\ audit.wentBack
    /\ Len(upcomingBeats) = 2 /\ beatIndex = 1
    /\ spawnTime(1) = 0
    /\ Len(notes) = 1 /\ notes[1].beat = 1

(***************************************************************************)
(* C13: after a spawn pass at playback time t every beat with              *)
(* time - travelTime <= t has been spawned, and no beat with               *)
(* time - travelTime above the greatest playback time seen so far has.     *)
(***************************************************************************)
C13_SpawnedExactlyWhenDue ==
    /\ \A b \in 1 .. Len(upcomingBeats) :
          b <= beatIndex => upcomingBeats[b].time - 2000 <= audit.maxClock
    /\ isRunning =>
          \A t \in ClockValues : \A b \in 1 .. Len(upcomingBeats) :
             /\ upcomingBeats[b].time - 2000 <= t => b <= gameLoop(t).beatIndex
             /\ (b > beatIndex /\ upcomingBeats[b].time - 2000 > t) =>
                   b > gameLoop(t).beatIndex

\* The first beat was spawned, and the second is not yet due at the greatest
\* playback time seen.
C13_Witness ==
    /\ Len(upcomingBeats) = 2 /\ beatIndex = 1
    /\ audit.maxClock >= spawnTime(1)
    /\ audit.maxClock < spawnTime(2)
    /\ audit.maxClock > 0

\* The note of beat b as the collection ns holds it (<<>> when it does not).
Held(ns, b) == SelectSeq(ns, LAMBDA n : n.beat = b)

(***************************************************************************)
(* C17: seen between frames and keypresses, a note's status only changes   *)
(* active -> hit, active -> missed, hit -> removed, missed -> removed; in  *)
(* particular no note goes from active to removed without having been hit  *)
(* or recorded as missed.                                                  *)
(***************************************************************************)
StatusStep(before, after) ==
    \/ after = before
    \/ before = "active" /\ after \in {"hit", "missed"}
    \/ before \in {"hit", "missed"} /\ after = "removed"

\* The status of the note of beat b after an operation that leaves c.
StatusAfter(c, b) ==
    IF Held(c.notes, b) = <<>> THEN "removed" ELSE Held(c.notes, b)[1].status

C17_StatusOneWay ==
    isRunning =>
        \A i \in 1 .. Len(notes) :
            /\ \A t \in ClockValues :
                  StatusStep(notes[i].status, StatusAfter(gameLoop(t), notes[i].beat))
            /\ \A lane \in Lanes, t \in ClockValues :
                  StatusStep(notes[i].status, StatusAfter(keyPressed(lane, t), notes[i].beat))

(***************************************************************************)
(* C18: after a frame update pass at playback time t no note of the        *)
(* collection with t - hitTime > 150 ms is still active.                   *)
(***************************************************************************)
C18_NoLateActiveNote ==
    (isRunning /\ ~isPaused) =>
        \A t \in ClockValues :
            LET after == gameLoop(t).notes IN
            \A i \in 1 .. Len(after) :
                t - after[i].hitTime > 150 => after[i].status # "active"

\* A note has just been turned missed by a frame, and its miss recorded.
C18_Witness ==
    \E i \in 1 .. Len(notes) :
        /\ notes[i].status = "missed"
        /\ notes[i].alphaSteps = 1
        /\ scored[notes[i].beat] = <<"miss">>

(***************************************************************************)
(* C19: after a frame update pass at playback time t the collection holds  *)
(* no note with t - hitTime > 500 ms; each further update of a hit or      *)
(* missed note brings it one step closer to removal, 11 updates after a    *)
(* hit and 20 after a miss at most; and while frames continue every        *)
(* spawned note eventually leaves the collection.                          *)
(***************************************************************************)
FadeLeft(n) == IF n.status = "hit" THEN 11 - n.alphaSteps ELSE 20 - n.alphaSteps

C19_LifetimeBounded ==
    /\ \A i \in 1 .. Len(notes) :
          notes[i].status \in {"hit", "missed"} => FadeLeft(notes[i]) >= 1
    /\ (isRunning /\ ~isPaused) =>
          \A t \in ClockValues :
             LET after == gameLoop(t).notes IN
             /\ \A i \in 1 .. Len(after) : t - after[i].hitTime <= 500
             /\ \A i \in 1 .. Len(notes) :
                   notes[i].status \in {"hit", "missed"} =>
                      \/ Held(after, notes[i].beat) = <<>>
                      \/ FadeLeft(Held(after, notes[i].beat)[1]) = FadeLeft(notes[i]) - 1

C19_BoundedLifetime ==
    /\ []C19_LifetimeBounded
    /\ \A b \in 1 .. MaxBeats : (b <= beatIndex) ~> Gone(b)

\* A hit note has taken ten updates since the hit: the next one removes it.
C19_Witness ==
    \E i \in 1 .. Len(notes) :
        /\ notes[i].status = "hit"
        /\ notes[i].alphaSteps = 10
        /\ WasHit(notes[i].beat)

(***************************************************************************)
(* C20: while the game is paused a frame tick and a lane keypress leave    *)
(* the interpolated clock and its anchor, the beat cursor, every note and  *)
(* every scoring counter as they are.                                      *)
(***************************************************************************)
C20_PausedChangesNothing ==
    (isRunning /\ isPaused) =>
        /\ gameLoopTimed.timing = timing
        /\ gameLoopTimed.core.beatIndex = beatIndex
        /\ gameLoopTimed.core.notes = notes
        /\ gameLoopTimed.core.scoringSystem = scoringSystem
        /\ \A lane \in Lanes :
              /\ keyPressedTimed(lane).timing = timing
              /\ keyPressedTimed(lane).core.beatIndex = beatIndex
              /\ keyPressedTimed(lane).core.notes = notes
              /\ keyPressedTimed(lane).core.scoringSystem = scoringSystem

\* Paused with an active note that a press would now judge perfect, and
\* with the anchor old enough for a frame to re-sample the player.
C20_Witness ==
    /\ isRunning /\ isPaused
    /\ world.now - timing.lastYouTubeTimeUpdate > 100
    /\ \E i \in 1 .. Len(notes) :
          /\ notes[i].status = "active"
          /\ Abs(notes[i].hitTime - (world.playerTime + 150)) <= 50

(***************************************************************************)
(* C14: in a generated schedule any two events of one lane, adjacent in    *)
(* the sorted order or not, are at least 200 ms apart.                     *)
(***************************************************************************)
C14_AnySameLanePairApart ==
    audioAnalyzer.generated =>
        \A i, j \in 1 .. Len(audioAnalyzer.beats) :
            (i < j /\ audioAnalyzer.beats[i].lane = audioAnalyzer.beats[j].lane) =>
                audioAnalyzer.beats[j].time - audioAnalyzer.beats[i].time >= 200000

(***************************************************************************)
(* C15: in a generated schedule no two events adjacent in the sorted order *)
(* share a lane while less than 200 ms apart.                              *)
(***************************************************************************)
C15_AdjacentSameLaneApart ==
    audioAnalyzer.generated =>
        \A i \in 1 .. Len(audioAnalyzer.beats) - 1 :
            ~(/\ audioAnalyzer.beats[i].lane = audioAnalyzer.beats[i + 1].lane
              /\ audioAnalyzer.beats[i + 1].time - audioAnalyzer.beats[i].time < 200000)

\* The lanes drawn put two neighbours of the sorted list in one lane less
\* than 200 ms apart, twice in a row, and the reassignment pass has run.
C15_Witness ==
    /\ audioAnalyzer.generated
    /\ LET drawn == sortByTime(pushed(genArgs.duration, genArgs.bpm, genArgs.draws, 1)) IN
       \E i \in 1 .. Len(drawn) - 2 :
          /\ drawn[i].lane = drawn[i + 1].lane /\ drawn[i + 1].lane = drawn[i + 2].lane
          /\ drawn[i + 2].time - drawn[i].time < 200000
          /\ audioAnalyzer.beats[i + 1].lane # drawn[i + 1].lane

(***************************************************************************)
(* C16: a generated schedule is sorted ascending by time, every time lies  *)
(* in [2 s, duration - 2 s], every lane is in 0..3, and the schedule is    *)
(* empty when duration <= 4 s.                                             *)
(***************************************************************************)
C16_SortedInRange ==
    audioAnalyzer.generated =>
        /\ \A i \in 1 .. Len(audioAnalyzer.beats) - 1 :
              audioAnalyzer.beats[i].time <= audioAnalyzer.beats[i + 1].time
        /\ \A i \in 1 .. Len(audioAnalyzer.beats) :
              /\ audioAnalyzer.beats[i].time >= 2000000
              /\ audioAnalyzer.beats[i].time <= genArgs.duration - 2000000
              /\ audioAnalyzer.beats[i].lane \in 0 .. 3
        /\ genArgs.duration <= 4000000 => audioAnalyzer.beats = <<>>

\* A hard schedule of two passes with all eight events, which the loop
\* pushed out of time order.
C16_Witness ==
    /\ audioAnalyzer.generated
    /\ genArgs.difficulty = "hard"
    /\ Len(audioAnalyzer.beats) = 8
    /\ LET raw == pushed(genArgs.duration, genArgs.bpm, genArgs.draws, 1) IN
       \E i \in 1 .. Len(raw) - 1 : raw[i].time > raw[i + 1].time

(***************************************************************************)
(* C21: the first clock sample after resume() queries the player and sets  *)
(* the anchor, whatever the length of the pause: in every paused state,    *)
(* resuming and then sampling at the present wall-clock time leaves the    *)
(* anchor at that time and the song time at the player's time.             *)
(***************************************************************************)
C21_ResumeTakesFreshSample ==
    (isRunning /\ isPaused) =>
        LET s == getInterpolatedPlaybackTime(resume(Engine).timing, world.now,
                                             world.playerTime)
        IN  /\ s.timing.lastYouTubeTimeUpdate = world.now
            /\ s.timing.lastYouTubeTime = world.playerTime
            /\ s.timing.interpolatedTime = world.playerTime

(***************************************************************************)
(* C22: while the game is paused with the end-of-run timer pending, the    *)
(* timer's callback does not end the run: the game-over flag stays unset   *)
(* and the results screen is not shown.                                    *)
(***************************************************************************)
C22_PausedTimerDoesNotEnd ==
    (isRunning /\ isPaused /\ endTimeout = "pending") =>
        /\ ~endTimeoutFired.isGameOver
        /\ endTimeoutFired.isRunning
        /\ endTimeoutFired.page.screen # "results"

(***************************************************************************)
(* C23: while a startGame is in progress (from the restart to the new      *)
(* run's entry into playing) no frame callback spawns a note, changes a    *)
(* note or changes the scoring, and no keypress does.                      *)
(***************************************************************************)
SameNotesAndScoring(e) ==
    /\ e.beatIndex = beatIndex
    /\ e.notes = notes
    /\ e.scoringSystem = scoringSystem

C23_NothingActsDuringRestart ==
    page.startGame # "none" =>
        /\ \A named \in BOOLEAN, t \in RunClock :
              SameNotesAndScoring(animationFrame(named, t))
        /\ \A lane \in RunLanes, t \in RunClock : SameNotesAndScoring(laneKey(lane, t))

(***************************************************************************)
(* C24: a run enters playing (startGame's statements after the countdown)  *)
(* with every scoring counter 0, no note and the beat cursor at 0.         *)
(***************************************************************************)
C24_RunStartsClean ==
    page.startGame = "countdown" =>
        /\ countdownDone(Engine).isRunning
        /\ countdownDone(Engine).scoringSystem = ScoringReset
        /\ countdownDone(Engine).notes = <<>>
        /\ countdownDone(Engine).beatIndex = 0

(***************************************************************************)
(* C25: once endGame has run, a frame callback, a lane key, the pause      *)
(* toggle (Escape, tab hidden), the end timer and the player's ENDED       *)
(* callback leave the scoring counters, the notes and the game-over flag   *)
(* as they are.                                                            *)
(***************************************************************************)
EndedAsBefore(e) ==
    /\ e.scoringSystem = scoringSystem
    /\ e.notes = notes
    /\ e.beatIndex = beatIndex
    /\ e.isGameOver

C25_EndedIsTerminal ==
    isGameOver =>
        /\ page.frames > 0 =>
              \A named \in BOOLEAN, t \in RunClock : EndedAsBefore(animationFrame(named, t))
        /\ \A lane \in RunLanes, t \in RunClock : EndedAsBefore(laneKey(lane, t))
        /\ EndedAsBefore(escapeKey)
        /\ EndedAsBefore(tabHidden)
        /\ EndedAsBefore(endTimeoutFired)
        /\ EndedAsBefore(playerEnded)

\* Ended by the player's ENDED callback with an active note left and a
\* frame callback still pending (a second loop, which endGame's
\* cancelAnimationFrame does not reach).
C25_Witness ==
    /\ isGameOver
    /\ page.frames > 0
    /\ page.screen = "results"
    /\ \E i \in 1 .. Len(notes) : notes[i].status = "active"

(***************************************************************************)
(* C26: a frame starts the end-of-run timer only with the cursor at the    *)
(* end of the schedule and no note left; at most one such timer is         *)
(* pending; and whenever a pending timer would end the run, the cursor is  *)
(* at the end of the schedule and no note is left.                         *)
(***************************************************************************)
Exhausted(e) == e.beatIndex >= Len(e.upcomingBeats) /\ e.notes = <<>>

C26_StartedOnlyWhenDone ==
    \A named \in BOOLEAN, t \in RunClock :
        animationFrame(named, t).page.timers > page.timers =>
            Exhausted(animationFrame(named, t))

C26_AtMostOneTimer ==
    /\ page.timers <= 1
    /\ page.timers = 1 <=> endTimeout = "pending"

C26_EndsOnlyWhenDone ==
    (page.timers > 0 /\ ~isGameOver) => Exhausted(Engine)

C26_GraceTimer ==
    /\ C26_StartedOnlyWhenDone
    /\ C26_AtMostOneTimer
    /\ C26_EndsOnlyWhenDone

Phase(e) ==
    IF e.page.startGame \in {"init", "loadVideo"} THEN "loading"
    ELSE IF e.page.startGame = "countdown" THEN "countdown"
    ELSE IF e.isGameOver THEN "ended"
    ELSE IF e.isRunning /\ e.isPaused THEN "paused"
    ELSE IF e.isRunning THEN "playing"
    ELSE "idle"

PhaseSteps ==
    {<<"idle", "loading">>, <<"loading", "countdown">>, <<"countdown", "playing">>,
     <<"playing", "paused">>, <<"paused", "playing">>, <<"playing", "ended">>,
     <<"paused", "ended">>}

\* What the pause toggle and the Resume button can leave.
Toggles ==
    {escapeKey, tabHidden} \cup (IF page.pauseMenu THEN {resume(Engine)} ELSE {})

\* What the other callbacks that neither begin nor abandon a run can leave.
RunSteps ==
    {animationFrame(named, t) : named \in BOOLEAN, t \in RunClock}
        \cup {laneKey(lane, t) : lane \in RunLanes, t \in RunClock}
        \cup (IF page.timers > 0 THEN {endTimeoutFired} ELSE {})
        \cup (IF world.playing THEN {playerEnded} ELSE {})
        \cup (IF page.startGame = "loadVideo"
              THEN {videoReady(Engine, beats) : beats \in RunSchedules} ELSE {})
        \cup (IF page.startGame = "countdown" THEN {countdownDone(Engine)} ELSE {})

C28_PhaseOrder ==
    /\ \A h \in Toggles \cup RunSteps :
          Phase(h) = Phase(Engine) \/ <<Phase(Engine), Phase(h)>> \in PhaseSteps
    /\ \A h \in Toggles :
          /\ (h.isPaused /\ ~isPaused) => (Phase(Engine) = "playing" /\ Phase(h) = "paused")
          /\ (~h.isPaused /\ isPaused) => (Phase(Engine) = "paused" /\ Phase(h) = "playing")

(***************************************************************************)
(* C29: when init() or loadVideo() fails while startGame waits for it, the *)
(* start screen is shown with an error message, the engine is not running, *)
(* no frame callback is pending, the key listeners are off and there is no *)
(* note.                                                                   *)
(***************************************************************************)
C29_FailedStartLeavesNothing ==
    page.startGame \in {"init", "loadVideo"} =>
        /\ startFailed(Engine).page.screen = "start"
        /\ startFailed(Engine).page.error
        /\ startFailed(Engine).page.startGame = "none"
        /\ ~startFailed(Engine).isRunning
        /\ startFailed(Engine).page.frames = 0
        /\ ~startFailed(Engine).page.listening
        /\ startFailed(Engine).notes = <<>>

(***************************************************************************)
(* C30: a start request with a URL that yields no video id leaves the      *)
(* scoring counters, the notes, the beat cursor, the schedule and the      *)
(* flags isRunning, isPaused and isGameOver as they were.                  *)
(***************************************************************************)
CoreAsBefore(e) ==
    /\ e.scoringSystem = scoringSystem
    /\ e.notes = notes
    /\ e.beatIndex = beatIndex
    /\ e.upcomingBeats = upcomingBeats
    /\ e.isRunning = isRunning
    /\ e.isPaused = isPaused
    /\ e.isGameOver = isGameOver

\* The request is rejected by handleStart, by loadVideo at once when the
\* IFrame API is loaded, and by loadVideo after the wait for the API else.
C30_NoIdLeavesCore ==
    /\ (page.screen = "start" /\ ~page.pauseMenu /\ page.startGame = "none") =>
          \A url \in Urls :
              extractVideoId(url) = "null" =>
                  /\ CoreAsBefore(handleStart(Engine, url))
                  /\ (page.api \/ ~passesHandleStart(url)) =>
                        /\ handleStart(Engine, url).page.screen = "start"
                        /\ handleStart(Engine, url).page.error
    /\ (page.startGame = "init" /\ extractVideoId(page.url) = "null") =>
          /\ CoreAsBefore(initDone(Engine))
          /\ initDone(Engine).page.screen = "start"
          /\ initDone(Engine).page.error

\* ---------------------------------------------------------------------------
\* YouTubePlayerManager.init() and the loading of the IFrame API
\* (renderer.js 364-388).  loader.YT is what window.YT holds: "undefined", a
\* "stub" (window.YT exists, YT.Player does not yet) or "full".  loader.promises
\* lists the promises init() has returned, each with its state and whether its
\* 10 s timer is still to fire; loader.owner is the promise whose resolve the
\* global window.onYouTubeIframeAPIReady holds (0: the global is not set).
\* ---------------------------------------------------------------------------

MaxInits == 3

\* init(): resolved at once when YT.Player exists; otherwise a script tag is
\* added, the global ready callback is overwritten and a 10 s timer is started.
init(l) ==
    IF l.YT = "full"
    THEN [l EXCEPT !.promises = Append(@, [state |-> "resolved", timer |-> FALSE])]
    ELSE [l EXCEPT !.promises = Append(@, [state |-> "pending", timer |-> TRUE]),
                   !.owner = Len(l.promises) + 1]

\* window.onYouTubeIframeAPIReady(): resolve() of the promise of the last
\* init() that set it; resolving a settled promise does nothing.
onYouTubeIframeAPIReady(l) ==
    [l EXCEPT !.ready = TRUE,
              !.promises[l.owner].state = IF @ = "pending" THEN "resolved" ELSE @]

\* The timer callback of promise k: reject only if window.YT is falsy.
initTimeout(l, k) ==
    [l EXCEPT !.promises[k].timer = FALSE,
              !.promises[k].state =
                  IF l.YT = "undefined" /\ @ = "pending" THEN "rejected" ELSE @]

InitCall ==
    /\ Len(loader.promises) < MaxInits
    /\ loader' = init(loader)
    /\ UNCHANGED <<gameVars, history>>

\* The environment: the iframe_api script runs and defines window.YT, ...
ScriptRuns ==
    /\ loader.promises # <<>>
    /\ loader.YT = "undefined"
    /\ loader' = [loader EXCEPT !.YT = "stub"]
    /\ UNCHANGED <<gameVars, history>>

\* ... the widget script it loads defines YT.Player, ...
PlayerDefined ==
    /\ loader.YT = "stub"
    /\ loader' = [loader EXCEPT !.YT = "full"]
    /\ UNCHANGED <<gameVars, history>>

\* ... and then calls the global ready callback, once.
ReadyCallback ==
    /\ loader.YT = "full"
    /\ ~loader.ready
    /\ loader.owner > 0
    /\ loader' = onYouTubeIframeAPIReady(loader)
    /\ UNCHANGED <<gameVars, history>>

TimeoutFires(k) ==
    /\ k <= Len(loader.promises)
    /\ loader.promises[k].timer
    /\ loader' = initTimeout(loader, k)
    /\ UNCHANGED <<gameVars, history>>

NextInit ==
    \/ InitCall
    \/ ScriptRuns
    \/ PlayerDefined
    \/ ReadyCallback
    \/ \E k \in 1 .. MaxInits : TimeoutFires(k)

\* A started timer fires; whether and how far the scripts load is up to the
\* environment.
SpecInit ==
    Init /\ [][NextInit]_vars /\ \A k \in 1 .. MaxInits : WF_vars(TimeoutFires(k))

\* C31: every promise init() returns settles: it is resolved when the API
\* becomes ready and is rejected otherwise once its 10 s timer has fired;
\* whatever the scripts do, a pending promise does not stay pending forever.
C31_InitSettles ==
    \A k \in 1 .. MaxInits :
        (k <= Len(loader.promises) /\ loader.promises[k].state = "pending")
            ~> ~(k <= Len(loader.promises) /\ loader.promises[k].state = "pending")

\* ---------------------------------------------------------------------------
\* ScoringSystem.getAccuracy (part_000 165-173), in tenths of a percent.
\* accuracy * 10 is (perfectCount + goodCount / 2) * 1000 / totalNotes, and
\* Math.round(x) is floor(x + 1/2).
\* ---------------------------------------------------------------------------

\* Math.floor in place of Math.round.
getAccuracyTruncated(s) ==
    IF s.totalNotes = 0 THEN 1000
    ELSE ((2 * s.perfectCount + s.goodCount) * 1000) \div (2 * s.totalNotes)

getAccuracy(s) ==
    IF s.totalNotes = 0 THEN 1000
    ELSE ((2 * s.perfectCount + s.goodCount) * 1000 + s.totalNotes) \div (2 * s.totalNotes)

\* C32: getAccuracy() is 100 when no note was judged and otherwise the tenth
\* of a percent nearest to (perfectCount + goodCount / 2) / totalNotes * 100,
\* so it lies in 0 .. 100; one perfect, one good, one miss of one note give
\* 100.0, 50.0 and 0.0.
C32_Accuracy ==
    LET s == scoringSystem
        a == getAccuracy(s)
        exact == (2 * s.perfectCount + s.goodCount) * 1000   \* times 2 * totalNotes
    IN  /\ s.totalNotes = 0 => a = 1000
        /\ s.totalNotes > 0 =>
              /\ 2 * s.totalNotes * a - exact <= s.totalNotes
              /\ exact - 2 * s.totalNotes * a < s.totalNotes
        /\ 0 <= a /\ a <= 1000
        /\ (s.totalNotes = 1 /\ s.perfectCount = 1) => a = 1000
        /\ (s.totalNotes = 1 /\ s.goodCount = 1) => a = 500
        /\ (s.totalNotes = 1 /\ s.missCount = 1) => a = 0

\* Two perfects and a miss: 66.666... is returned as 66.7.
C32_Witness ==
    /\ scoringSystem.totalNotes = 3
    /\ scoringSystem.perfectCount = 2
    /\ scoringSystem.missCount = 1
    /\ getAccuracy(scoringSystem) = 667

(***************************************************************************)
(* C33: a clock sample at wall-clock time now queries the player iff more  *)
(* than 100 ms have passed since the anchor was set; it then moves the     *)
(* anchor to (reported time, now) and takes the reported time as it is,    *)
(* however far it is from the interpolated one.  Otherwise the reported    *)
(* time has no influence, the anchor stays and interpolatedTime is the     *)
(* anchor's time plus the wall-clock time passed since.  In both cases the *)
(* value returned is interpolatedTime + calibrationOffset.                 *)
(***************************************************************************)
ReportedTimes == {0, world.playerTime, world.playerTime + 5000}

C33_ClockSample ==
    \A playerTime \in ReportedTimes :
        LET s == getInterpolatedPlaybackTime(timing, world.now, playerTime)
            since == world.now - timing.lastYouTubeTimeUpdate
        IN  /\ since > 100 =>
                  /\ s.timing.lastYouTubeTime = playerTime
                  /\ s.timing.lastYouTubeTimeUpdate = world.now
                  /\ s.timing.interpolatedTime = playerTime
            /\ since <= 100 =>
                  /\ s.timing.lastYouTubeTime = timing.lastYouTubeTime
                  /\ s.timing.lastYouTubeTimeUpdate = timing.lastYouTubeTimeUpdate
                  /\ s.timing.interpolatedTime = timing.lastYouTubeTime + since
                  /\ \A other \in ReportedTimes :
                        getInterpolatedPlaybackTime(timing, world.now, other) = s
            /\ s.playbackTime = s.timing.interpolatedTime + calibrationOffset

\* A frame has sampled the player more than 100 ms after the last sample and
\* adopted a time that lags behind the interpolated one.
C33_Witness ==
    /\ isRunning
    /\ world.now >= 1750
    /\ timing.lastYouTubeTimeUpdate = world.now
    /\ timing.lastYouTubeTime = world.playerTime
    /\ timing.interpolatedTime = world.playerTime
    /\ world.playerTime < world.now

(***************************************************************************)
(* C34: in every reachable state totalNotes = perfectCount + goodCount +   *)
(* missCount, hitNotes = perfectCount + goodCount and                      *)
(* combo <= maxCombo <= hitNotes.                                          *)
(***************************************************************************)
C34_CountersAgree ==
    /\ scoringSystem.totalNotes =
           scoringSystem.perfectCount + scoringSystem.goodCount + scoringSystem.missCount
    /\ scoringSystem.hitNotes = scoringSystem.perfectCount + scoringSystem.goodCount
    /\ scoringSystem.combo <= scoringSystem.maxCombo
    /\ scoringSystem.maxCombo <= scoringSystem.hitNotes

\* Hits of both kinds and misses have been judged, and the streak running now
\* is shorter than the longest one.
C34_Witness ==
    /\ scoringSystem.perfectCount > 0
    /\ scoringSystem.goodCount > 0
    /\ scoringSystem.missCount > 0
    /\ 0 < scoringSystem.combo
    /\ scoringSystem.combo < scoringSystem.maxCombo
    /\ scoringSystem.maxCombo < scoringSystem.hitNotes

\* ---------------------------------------------------------------------------
\* ScoringSystem.getProgress (part_000 240-243), in thousandths of a percent.
\* ---------------------------------------------------------------------------
getProgress(e) ==
    IF e.page.expectedNotes = 0 THEN 0
    ELSE (e.scoringSystem.totalNotes * 100000) \div e.page.expectedNotes

(***************************************************************************)
(* C35: during a run, the judged notes (totalNotes) are no more than the   *)
(* notes spawned since the run's startGame() reset the game, these are no  *)
(* more than expectedNotes, the length of the schedule, and getProgress()  *)
(* is within 0 .. 100.                                                     *)
(***************************************************************************)
C35_ProgressInRange ==
    (isRunning /\ page.startGame = "none") =>
        /\ scoringSystem.totalNotes <= page.spawned
        /\ page.spawned <= page.expectedNotes
        /\ page.expectedNotes = Len(upcomingBeats)
        /\ 0 <= getProgress(Engine)
        /\ getProgress(Engine) <= 100000

(***************************************************************************)
(* C36: a run is ended at most once: between one call of startGame() and   *)
(* the next, endGame() shows the results screen (and updates the history   *)
(* score, in the same call) at most once, whether the player's ENDED       *)
(* callback, the end-of-run timer or both call it, in either order.        *)
(***************************************************************************)
C36_EndedAtMostOnce == page.shown <= 1

(***************************************************************************)
(* C37: at any time at most one chain of game-loop frame callbacks is      *)
(* scheduled: at most one requestAnimationFrame callback of gameLoop is    *)
(* pending, so that the schedule of one run only is being played.          *)
(***************************************************************************)
C37_OneLoop == page.frames <= 1

(***************************************************************************)
(* C38: once quit() has returned the game to the start screen, no event of *)
(* the abandoned run ends the game or shows the results screen: in every   *)
(* state with the start screen shown and no start in progress, the         *)
(* callback of a pending end-of-run timer, a pending frame callback and    *)
(* the player's ENDED callback leave isGameOver and isRunning as they are  *)
(* and the start screen shown, and show no results.                        *)
(***************************************************************************)
QuitKept(e) ==
    /\ e.isGameOver = isGameOver
    /\ e.page.screen = page.screen
    /\ e.page.shown = page.shown

C38_QuitIsFinal ==
    page.quit =>
        /\ page.timers > 0 => QuitKept(endTimeoutFired)
        /\ world.playing => QuitKept(playerEnded)
        /\ page.frames > 0 =>
              \A named \in BOOLEAN, currentTime \in RunClock :
                  QuitKept(animationFrame(named, currentTime))

\* ---------------------------------------------------------------------------
\* HistoryManager.addToHistory (part_001 77-122).  An entry is modelled by its
\* videoId (0: the URL has none).  history.fetching lists the calls suspended
\* at 'await this.fetchVideoTitle(url)', history.calls counts the calls made
\* with a videoId, history.videos the videos they named (1, 2, ... in the
\* order of their first call) and history.last is the videoId of the call
\* that returned last.
\* ---------------------------------------------------------------------------

maxHistoryItems == 10
MaxAdds == 12
MaxFetching == 2

\* findIndex(item => item.videoId === videoId) !== -1
InHistory(h, videoId) == \E i \in 1 .. Len(h.history) : h.history[i] = videoId

\* splice(existingIndex, 1) for the first entry with this videoId
Spliced(list, videoId) ==
    LET existingIndex == CHOOSE i \in 1 .. Len(list) :
                             /\ list[i] = videoId
                             /\ \A j \in 1 .. i - 1 : list[j] # videoId
    IN  SubSeq(list, 1, existingIndex - 1) \o SubSeq(list, existingIndex + 1, Len(list))

\* addToHistory(url, difficulty) up to its return or its wait for the title.
addToHistory(h, videoId) ==
    LET called == [h EXCEPT !.calls = @ + 1,
                            !.videos = IF videoId > @ THEN videoId ELSE @] IN
    IF videoId = 0 THEN h
    ELSE IF InHistory(h, videoId)
         THEN [called EXCEPT !.history = <<videoId>> \o Spliced(h.history, videoId),
                             !.last = videoId]
         ELSE [called EXCEPT !.fetching = Append(@, videoId)]

\* addToHistory from the return of fetchVideoTitle on, for the i-th of the
\* suspended calls: unshift and trim.
titleFetched(h, i) ==
    LET videoId == h.fetching[i]
        unshifted == <<videoId>> \o h.history
    IN  [h EXCEPT !.history = IF Len(unshifted) > maxHistoryItems
                              THEN SubSeq(unshifted, 1, maxHistoryItems)
                              ELSE unshifted,
                  !.fetching = SubSeq(@, 1, i - 1) \o SubSeq(@, i + 1, Len(@)),
                  !.last = videoId]

\* The videos the next call may name: none, a new one, or the one of the
\* call before.
NextVideos == {0, history.videos, history.videos + 1}

AddToHistory(videoId) ==
    /\ history.calls < MaxAdds
    /\ ~(videoId # 0 /\ ~InHistory(history, videoId)
                      /\ Len(history.fetching) >= MaxFetching)
    /\ history' = addToHistory(history, videoId)
    /\ UNCHANGED <<gameVars, loader>>

TitleFetched(i) ==
    /\ i <= Len(history.fetching)
    /\ history' = titleFetched(history, i)
    /\ UNCHANGED <<gameVars, loader>>

NextHistory ==
    \/ \E videoId \in NextVideos : AddToHistory(videoId)
    \/ \E i \in 1 .. MaxFetching : TitleFetched(i)

SpecHistory == Init /\ [][NextHistory]_vars

(***************************************************************************)
(* C39: starting from an empty history, under any interleaving of          *)
(* addToHistory calls the history never holds two entries with the same    *)
(* videoId, never holds more than 10 entries, and its first entry is the   *)
(* video of the call that returned last.                                   *)
(***************************************************************************)
C39_HistoryWellFormed ==
    /\ \A i, j \in 1 .. Len(history.history) :
           history.history[i] = history.history[j] => i = j
    /\ Len(history.history) <= 10
    /\ history.last # 0 => history.history[1] = history.last

====
